---- MODULE Spec2Model ----
(***************************************************************************)
(* A model of strtr, an in-memory Nostr relay: the event repository        *)
(* (src/src/repository.ts), the ingestor, the subscription pool and the    *)
(* per-connection message handler (src/src/main.ts).                       *)
(*                                                                         *)
(* Representation.  An event id is a 64-digit lowercase hex string; ids of *)
(* equal length compare as numbers, so ids are naturals.  A NostrEvent is  *)
(* a record; its tags are a sequence of <<name, value>> pairs.  A replace- *)
(* able address `${kind}:${pubkey}:${d}` is the tuple <<kind, pubkey, d>>  *)
(* (the format is injective: kind has no colon, pubkey has fixed length).  *)
(* A ManagedEvent is the pair (id, deleted flag) kept in eventsById; the   *)
(* buckets hold ids, i.e. references to the one ManagedEvent of that id.   *)
(* An optional field (undefined or a value) is a sequence of length 0 or 1.*)
(***************************************************************************)
EXTENDS Integers, Sequences, FiniteSets, TLC

\* ------------------------------------------------------------------ bounds
\* at most this many events are held in eventsById in the repository runs
MaxStored == 5
\* at most this many events are held in eventsById in the relay runs
MaxRelayStored == 3

\* ------------------------------------------------- program constants
\* Math.min(filter.limit ?? 500, 500)
DefaultLimit == 500
MaxLimit == 500

\* ------------------------------------------------- the events clients send
Tag(name, value) ==
    <<name, value>>
Event(id, pubkey, created_at, kind, tags, sigOk) ==
    [id |-> id, pubkey |-> pubkey, created_at |-> created_at, kind |-> kind,
     tags |-> tags, sigOk |-> sigOk]

\* the address of P's kind-0 event
AddrP0 ==
    <<0, "P", "">>

\* three kind-0 events of P, one address: 1 and 2 tie on created_at, 3 is older
R1 ==
    Event(1, "P", 2, 0, <<>>, TRUE)
R2 ==
    Event(2, "P", 2, 0, <<>>, TRUE)
R3 ==
    Event(3, "P", 1, 0, <<Tag("p", "Q")>>, TRUE)
\* a parameterized replaceable event of Q
PR4 ==
    Event(4, "Q", 1, 30000, <<Tag("d", "x"), Tag("e", 5)>>, TRUE)
\* a regular event of P
E5 ==
    Event(5, "P", 1, 1, <<>>, TRUE)
\* a regular event of Q with several e tags
E6 ==
    Event(6, "Q", 2, 1, <<Tag("e", 5), Tag("e", 7), Tag("p", "P")>>, TRUE)
\* a deletion event of P: names E5 (twice), R1 and itself
D7 ==
    Event(7, "P", 3, 5, <<Tag("e", 5), Tag("e", 5), Tag("e", 1), Tag("e", 7)>>, TRUE)
\* a deletion event of P: names P's kind-0 address and the deletion event D7
D8 ==
    Event(8, "P", 2, 5, <<Tag("a", AddrP0), Tag("e", 7)>>, TRUE)
\* a deletion event of Q: names P's event E5, an unknown id and P's address
D9 ==
    Event(9, "Q", 2, 5, <<Tag("e", 5), Tag("e", 0), Tag("a", AddrP0)>>, TRUE)
\* an ephemeral event of P
X10 ==
    Event(10, "P", 2, 20000, <<Tag("p", "Q")>>, TRUE)
\* a regular event of P whose signature does not verify
B11 ==
    Event(11, "P", 2, 1, <<>>, FALSE)
\* a parameterized replaceable event of P without a d tag
N12 ==
    Event(12, "P", 2, 30000, <<Tag("p", "Q")>>, TRUE)

Events ==
    {R1, R2, R3, PR4, E5, E6, D7, D8, D9, X10}
RelayEvents ==
    {R1, R3, E5, D7, D9, X10}
\* the events of the clients that also send events the relay refuses
ConnEvents ==
    {E5, D7, X10, B11, N12}
\* the events of the clients that send one event of every handling
MsgEvents ==
    {R1, E5, D7, X10, B11, N12}
EventOf(id) ==
    CHOOSE e \in Events \cup ConnEvents : e.id = id

\* ------------------------------------------------- event.ts
\* a range of replaceable kinds that includes 20000
isNonParamReplaceableEvent_Inclusive(ev) ==
    ev.kind = 0 \/ ev.kind = 3 \/ (10000 <= ev.kind /\ ev.kind <= 20000)
isNonParamReplaceableEvent(ev) ==
    ev.kind = 0 \/ ev.kind = 3 \/ (10000 <= ev.kind /\ ev.kind < 20000)
isParamReplaceableEvent(ev) ==
    30000 <= ev.kind /\ ev.kind < 40000
isEphemeralEvent(ev) ==
    20000 <= ev.kind /\ ev.kind < 30000

RECURSIVE TagValues(_, _)
TagValues(tags, tagName) ==
    IF tags = <<>> THEN <<>>
    ELSE IF Head(tags)[1] = tagName
         THEN <<Head(tags)[2]>> \o TagValues(Tail(tags), tagName)
         ELSE TagValues(Tail(tags), tagName)
getTagValuesByName(ev, tagName) ==
    TagValues(ev.tags, tagName)

getEventHandling(ev) ==
    IF isNonParamReplaceableEvent(ev) THEN "non-param-replaceable"
    ELSE IF isParamReplaceableEvent(ev) THEN "param-replaceable"
    ELSE IF isEphemeralEvent(ev) THEN "ephemeral"
    ELSE "regular"

\* "ok" or the EventSemanticsError
validateEventSemantics(ev) ==
    IF isParamReplaceableEvent(ev) /\ Len(getTagValuesByName(ev, "d")) = 0
    THEN "no-dtag-in-param-replaceable"
    ELSE "ok"

\* ------------------------------------------------- repository.ts: ordering
\* an ordering that puts the smaller id first among equal created_at
compareNostrEvents_IdAscending(e1, e2) ==
    LET caDiff == e1.created_at - e2.created_at
    IN  IF caDiff # 0 THEN caDiff
        ELSE IF e1.id < e2.id THEN -1
        ELSE IF e1.id > e2.id THEN 1
        ELSE 0
compareNostrEvents(e1, e2) ==
    LET caDiff == e1.created_at - e2.created_at
    IN  IF caDiff # 0 THEN caDiff
        ELSE IF e1.id < e2.id THEN 1
        ELSE IF e1.id > e2.id THEN -1
        ELSE 0

replaceableEventAddr(ev) ==
    IF getEventHandling(ev) = "non-param-replaceable"
    THEN <<ev.kind, ev.pubkey, "">>
    ELSE <<ev.kind, ev.pubkey, getTagValuesByName(ev, "d")[1]>>

\* ------------------------------------------------- repository.ts: EventBucket
\* EventBucket.insert without its loop: the pushed element stays last
Sift_NoSort(events, i) ==
    events
\* the loop of EventBucket.insert: events[i+1] is the pushed element (i is the
\* 0-based index of the code), swapped down while its predecessor sorts after it
RECURSIVE Sift(_, _)
Sift(events, i) ==
    IF i <= 0 THEN events
    ELSE LET e1 == events[i]
             e2 == events[i + 1]
         IN  IF compareNostrEvents(EventOf(e1), EventOf(e2)) <= 0 THEN events
             ELSE Sift([events EXCEPT ![i + 1] = e1, ![i] = e2], i - 1)
BucketInsert(events, id) ==
    Sift(Append(events, id), Len(events))

\* ------------------------------------------------- repository.ts: EventIndex
\* buckets is the Map key -> EventBucket, a function on the keys that have a bucket
MapSet(map, key, val) ==
    [k \in DOMAIN map \cup {key} |-> IF k = key THEN val ELSE map[k]]
MapDelete(map, key) ==
    [k \in DOMAIN map \ {key} |-> map[k]]
EmptyMap ==
    [k \in {} |-> 0]

RECURSIVE EventIndexInsert(_, _, _)
EventIndexInsert(buckets, keys, id) ==
    IF keys = <<>> THEN buckets
    ELSE LET key == Head(keys)
         IN  IF key \notin DOMAIN buckets
             THEN MapSet(buckets, key, <<id>>)
             ELSE EventIndexInsert([buckets EXCEPT ![key] = BucketInsert(@, id)],
                                   Tail(keys), id)

\* ------------------------------------------------- repository.ts: tracker
\* replace without the comparison: the received event always wins
TrackerReplace_NoCompare(entries, received) ==
    LET addr == replaceableEventAddr(received)
    IN  IF addr \notin DOMAIN entries
        THEN [entries |-> MapSet(entries, addr, received.id),
              overwritten |-> <<>>, toBeStored |-> <<received.id>>]
        ELSE [entries |-> MapSet(entries, addr, received.id),
              overwritten |-> <<entries[addr]>>, toBeStored |-> <<received.id>>]
\* ReplaceableEventTracker.replace: the entries after it, the overwritten event and
\* the event to be stored (each undefined or an id)
TrackerReplace(entries, received) ==
    LET addr == replaceableEventAddr(received)
    IN  IF addr \notin DOMAIN entries
        THEN [entries |-> MapSet(entries, addr, received.id),
              overwritten |-> <<>>, toBeStored |-> <<received.id>>]
        ELSE IF compareNostrEvents(received, EventOf(entries[addr])) > 0
        THEN [entries |-> MapSet(entries, addr, received.id),
              overwritten |-> <<entries[addr]>>, toBeStored |-> <<received.id>>]
        ELSE [entries |-> entries, overwritten |-> <<>>, toBeStored |-> <<>>]
\* ReplaceableEventTracker.delete: the entries after it and the removed event
TrackerDelete(entries, addr) ==
    IF addr \notin DOMAIN entries
    THEN [entries |-> entries, existing |-> <<>>]
    ELSE [entries |-> MapDelete(entries, addr), existing |-> <<entries[addr]>>]

\* ------------------------------------------------- repository.ts: EventRepository
\* The repository is the record R of its private fields:
\*   eventsById     id -> [deleted]   (Map<string, ManagedEvent>)
\*   allEventsSorted                  (the bucket "all")
\*   indices        author, kind, eTag, pTag: key -> bucket
\*   reTracker      address -> id
\*   deletedEvents  set of ids
EmptyRepository ==
    [eventsById |-> EmptyMap, allEventsSorted |-> <<>>,
     indices |-> [author |-> EmptyMap, kind |-> EmptyMap, eTag |-> EmptyMap, pTag |-> EmptyMap],
     reTracker |-> EmptyMap, deletedEvents |-> {}]

\* a #store that builds eventsById anew, every ManagedEvent with deleted = false
Store_ClearFlags(R, ev) ==
    [R EXCEPT !.eventsById = [k \in DOMAIN @ \cup {ev.id} |-> [deleted |-> FALSE]],
              !.allEventsSorted = BucketInsert(@, ev.id),
              !.indices = [author |-> EventIndexInsert(@.author, <<ev.pubkey>>, ev.id),
                           kind |-> EventIndexInsert(@.kind, <<ev.kind>>, ev.id),
                           eTag |-> EventIndexInsert(@.eTag, getTagValuesByName(ev, "e"), ev.id),
                           pTag |-> EventIndexInsert(@.pTag, getTagValuesByName(ev, "p"), ev.id)]]
Store(R, ev) ==
    [R EXCEPT !.eventsById = MapSet(@, ev.id, [deleted |-> FALSE]),
              !.allEventsSorted = BucketInsert(@, ev.id),
              !.indices = [author |-> EventIndexInsert(@.author, <<ev.pubkey>>, ev.id),
                           kind |-> EventIndexInsert(@.kind, <<ev.kind>>, ev.id),
                           eTag |-> EventIndexInsert(@.eTag, getTagValuesByName(ev, "e"), ev.id),
                           pTag |-> EventIndexInsert(@.pTag, getTagValuesByName(ev, "p"), ev.id)]]

\* #deleteById without the test for a deletion event
DeleteByIdOk_AnyKind(R, id, requester) ==
    /\ id \in DOMAIN R.eventsById
    /\ requester = EventOf(id).pubkey
\* the boolean #deleteById returns
DeleteByIdOk(R, id, requester) ==
    /\ id \in DOMAIN R.eventsById
    /\ requester = EventOf(id).pubkey
    /\ EventOf(id).kind # 5
\* the repository after #deleteById
DeleteById(R, id, requester) ==
    IF DeleteByIdOk(R, id, requester)
    THEN [R EXCEPT !.eventsById[id].deleted = TRUE]
    ELSE R

DeleteByAddr(R, addr, requester) ==
    LET d == TrackerDelete(R.reTracker, addr)
        R1a == [R EXCEPT !.reTracker = d.entries]
    IN  IF d.existing = <<>> THEN R1a
        ELSE IF requester # EventOf(d.existing[1]).pubkey THEN R1a
        ELSE DeleteById(R1a, d.existing[1], requester)

\* a loop that records every e tag value as deleted, whatever #deleteById returns
RECURSIVE DeleteEach_Always(_, _, _)
DeleteEach_Always(R, es, requester) ==
    IF es = <<>> THEN R
    ELSE DeleteEach_Always([DeleteById(R, Head(es), requester)
                               EXCEPT !.deletedEvents = @ \cup {Head(es)}],
                           Tail(es), requester)
\* the loop over the e tags of a kind-5 event
RECURSIVE DeleteEach(_, _, _)
DeleteEach(R, es, requester) ==
    IF es = <<>> THEN R
    ELSE LET e == Head(es)
             R1a == DeleteById(R, e, requester)
             R2a == IF DeleteByIdOk(R, e, requester)
                    THEN [R1a EXCEPT !.deletedEvents = @ \cup {e}]
                    ELSE R1a
         IN  DeleteEach(R2a, Tail(es), requester)
\* the loop over the a tags of a kind-5 event
RECURSIVE DeleteEachAddr(_, _, _)
DeleteEachAddr(R, as, requester) ==
    IF as = <<>> THEN R
    ELSE DeleteEachAddr(DeleteByAddr(R, Head(as), requester), Tail(as), requester)

\* EventRepository.insert (ev is not ephemeral): the repository after it and the
\* Result: "ok", "duplicated" or "deleted"
Insert(R, ev) ==
    IF ev.id \in DOMAIN R.eventsById THEN [repo |-> R, res |-> "duplicated"]
    ELSE IF ev.id \in R.deletedEvents THEN [repo |-> R, res |-> "deleted"]
    ELSE IF ev.kind = 5
    THEN [repo |-> DeleteEachAddr(
                       DeleteEach(Store(R, ev), getTagValuesByName(ev, "e"), ev.pubkey),
                       getTagValuesByName(ev, "a"), ev.pubkey),
          res |-> "ok"]
    ELSE IF getEventHandling(ev) \in {"non-param-replaceable", "param-replaceable"}
    THEN LET t == TrackerReplace(R.reTracker, ev)
             R1a == [R EXCEPT !.reTracker = t.entries]
             R2a == IF t.toBeStored # <<>> THEN Store(R1a, EventOf(t.toBeStored[1])) ELSE R1a
             R3a == IF t.overwritten # <<>>
                    THEN DeleteById(R2a, t.overwritten[1], ev.pubkey)
                    ELSE R2a
         IN  [repo |-> R3a, res |-> "ok"]
    ELSE [repo |-> Store(R, ev), res |-> "ok"]

\* ------------------------------------------------- filters
\* a Filter: every field is optional (<<>> is undefined, <<v>> is the value v);
\* tagE and tagP are the tag queries "#e" and "#p"
Filter(ids, authors, kinds, tagE, tagP, since, until, limit) ==
    [ids |-> ids, authors |-> authors, kinds |-> kinds, tagE |-> tagE, tagP |-> tagP,
     since |-> since, until |-> until, limit |-> limit]
U ==
    <<>>

SeqHas(s, x) ==
    \E i \in 1..Len(s) : s[i] = x

\* filter.ts
isNeverMatchingFilter(f) ==
    \/ f.since # <<>> /\ f.until # <<>> /\ f.since[1] > f.until[1]
    \/ f.ids # <<>> /\ Len(f.ids[1]) = 0
    \/ f.authors # <<>> /\ Len(f.authors[1]) = 0
    \/ f.kinds # <<>> /\ Len(f.kinds[1]) = 0
    \/ f.tagE # <<>> /\ Len(f.tagE[1]) = 0
    \/ f.tagP # <<>> /\ Len(f.tagP[1]) = 0

\* matchFilter of nostr-tools: the conjunction of the constraints that are set
matchFilter(f, ev) ==
    /\ f.ids # <<>> => SeqHas(f.ids[1], ev.id)
    /\ f.kinds # <<>> => SeqHas(f.kinds[1], ev.kind)
    /\ f.authors # <<>> => SeqHas(f.authors[1], ev.pubkey)
    /\ f.tagE # <<>> =>
         \E i \in 1..Len(ev.tags) : ev.tags[i][1] = "e" /\ SeqHas(f.tagE[1], ev.tags[i][2])
    /\ f.tagP # <<>> =>
         \E i \in 1..Len(ev.tags) : ev.tags[i][1] = "p" /\ SeqHas(f.tagP[1], ev.tags[i][2])
    /\ f.since # <<>> => ev.created_at >= f.since[1]
    /\ f.until # <<>> => ev.created_at <= f.until[1]
matchFilters(fs, ev) ==
    \E i \in 1..Len(fs) : matchFilter(fs[i], ev)

\* ------------------------------------------------- repository.ts: EventBucket.query
\* a generator's run is [threw, out]: the events it yields, or the TypeError it
\* raises at its first step
Yields(out) ==
    [threw |-> FALSE, out |-> out]
Throws ==
    [threw |-> TRUE, out |-> <<>>]

\* the loop of searchStartIndex with 0-based l and r; this.events[l]! is undefined
\* when l is no index of events, and reading .event of it raises a TypeError
RECURSIVE SearchLoop(_, _, _, _)
SearchLoop(events, until, l, r) ==
    IF l >= r
    THEN IF l < 0 \/ l >= Len(events) THEN [threw |-> TRUE, idx |-> 0]
         ELSE IF until >= EventOf(events[l + 1]).created_at
              THEN [threw |-> FALSE, idx |-> l]
              ELSE [threw |-> FALSE, idx |-> l - 1]
    ELSE LET m == (l + r) \div 2
             created_at == EventOf(events[m + 1]).created_at
         IN  IF until = created_at THEN [threw |-> FALSE, idx |-> m]
             ELSE IF until < created_at THEN SearchLoop(events, until, l, m - 1)
             ELSE SearchLoop(events, until, m + 1, r)
searchStartIndex(events, until) ==
    SearchLoop(events, until, 0, Len(events) - 1)

\* the loop without the test of the deleted flag
RECURSIVE Walk_IgnoreDeleted(_, _, _, _)
Walk_IgnoreDeleted(R, events, filter, i) ==
    IF i < 0 THEN <<>>
    ELSE LET ent == events[i + 1]
         IN  IF filter.since # <<>> /\ EventOf(ent).created_at < filter.since[1] THEN <<>>
             ELSE (IF matchFilter(filter, EventOf(ent)) THEN <<ent>> ELSE <<>>)
                  \o Walk_IgnoreDeleted(R, events, filter, i - 1)
\* the loop of EventBucket.query from the 0-based index i downwards
RECURSIVE Walk(_, _, _, _)
Walk(R, events, filter, i) ==
    IF i < 0 THEN <<>>
    ELSE LET ent == events[i + 1]
         IN  IF filter.since # <<>> /\ EventOf(ent).created_at < filter.since[1] THEN <<>>
             ELSE (IF ~R.eventsById[ent].deleted /\ matchFilter(filter, EventOf(ent))
                   THEN <<ent>> ELSE <<>>)
                  \o Walk(R, events, filter, i - 1)
BucketQuery(R, events, filter) ==
    LET s == IF filter.until = <<>>
             THEN [threw |-> FALSE, idx |-> Len(events) - 1]
             ELSE searchStartIndex(events, filter.until[1])
    IN  IF s.threw THEN Throws ELSE Yields(Walk(R, events, filter, s.idx))

\* ------------------------------------------------- repository.ts: index selection
\* a bucket as #selectIndex hands it on: its id and its events
Bucket(id, events) ==
    [id |-> id, events |-> events]
RECURSIVE KeysToBuckets(_, _, _)
KeysToBuckets(buckets, keyName, keys) ==
    IF keys = <<>> THEN <<>>
    ELSE (IF Head(keys) \in DOMAIN buckets
          THEN <<Bucket(<<keyName, Head(keys)>>, buckets[Head(keys)])>>
          ELSE <<>>)
         \o KeysToBuckets(buckets, keyName, Tail(keys))
RECURSIVE TotalSize(_)
TotalSize(bs) ==
    IF bs = <<>> THEN 0 ELSE Len(Head(bs).events) + TotalSize(Tail(bs))
\* EventIndex.getCandidateBuckets: undefined, or the buckets with their total size
getCandidateBuckets(buckets, keyName, keys) ==
    IF keys = <<>> THEN <<>>
    ELSE LET bs == KeysToBuckets(buckets, keyName, keys[1])
         IN  <<[buckets |-> bs, totalSize |-> TotalSize(bs)]>>

\* a reduce that takes a candidate only when its total size is smaller
RECURSIVE ReduceMin_NoTie(_, _)
ReduceMin_NoTie(min, cands) ==
    IF cands = <<>> THEN min
    ELSE IF Head(cands).totalSize < min.totalSize THEN ReduceMin_NoTie(Head(cands), Tail(cands))
    ELSE ReduceMin_NoTie(min, Tail(cands))
RECURSIVE ReduceMin(_, _)
ReduceMin(min, cands) ==
    IF cands = <<>> THEN min
    ELSE LET cand == Head(cands)
         IN  IF cand.totalSize < min.totalSize THEN ReduceMin(cand, Tail(cands))
             ELSE IF cand.totalSize = min.totalSize /\ Len(cand.buckets) < Len(min.buckets)
             THEN ReduceMin(cand, Tail(cands))
             ELSE ReduceMin(min, Tail(cands))
AllBucket(R) ==
    Bucket(<<"all">>, R.allEventsSorted)
selectIndex(R, filter) ==
    IF filter.ids # <<>> THEN <<AllBucket(R)>>
    ELSE LET a == getCandidateBuckets(R.indices.author, "author", filter.authors)
             k == getCandidateBuckets(R.indices.kind, "kind", filter.kinds)
             e == getCandidateBuckets(R.indices.eTag, "eTag", filter.tagE)
             p == getCandidateBuckets(R.indices.pTag, "pTag", filter.tagP)
         IN  ReduceMin([buckets |-> <<AllBucket(R)>>,
                        totalSize |-> Len(R.allEventsSorted)],
                       a \o k \o e \o p).buckets

\* ------------------------------------------------- repository.ts: merged path
\* iterMap is a Map keyed by bucket id: a bucket listed twice has one iterator
RECURSIVE IterMap(_, _)
IterMap(buckets, seen) ==
    IF buckets = <<>> THEN <<>>
    ELSE IF Head(buckets).id \in seen THEN IterMap(Tail(buckets), seen)
    ELSE <<Head(buckets)>> \o IterMap(Tail(buckets), seen \cup {Head(buckets).id})

\* iters[i] is what the iterator of bucket i has still to yield; its head is the
\* entry of bucket i in nextQueue.  The top of the queue is an entry whose event
\* no other entry sorts after (entries that tie carry the same event).
RECURSIVE MergeLoop(_, _)
MergeLoop(iters, yieldedIds) ==
    LET queue == {i \in 1..Len(iters) : iters[i] # <<>>}
    IN  IF queue = {} THEN <<>>
        ELSE LET top == CHOOSE i \in queue :
                          \A j \in queue :
                              /\ compareNostrEvents(EventOf(Head(iters[i])),
                                                    EventOf(Head(iters[j]))) >= 0
                              /\ (Head(iters[i]) = Head(iters[j]) => i <= j)
                 ev == Head(iters[top])
             IN  (IF ev \notin yieldedIds THEN <<ev>> ELSE <<>>)
                 \o MergeLoop([iters EXCEPT ![top] = Tail(@)], yieldedIds \cup {ev})
mergedBuckets(R, buckets, filter) ==
    LET its == IterMap(buckets, {})
        runs == [i \in 1..Len(its) |-> BucketQuery(R, its[i].events, filter)]
    IN  IF \E i \in 1..Len(its) : runs[i].threw THEN Throws
        ELSE Yields(MergeLoop([i \in 1..Len(its) |-> runs[i].out], {}))

\* ------------------------------------------------- repository.ts: query
Min(a, b) ==
    IF a < b THEN a ELSE b
\* take that hands on everything iter yields
take_NoLimit(run, n) ==
    run
\* take(iter, n): nothing is pulled from iter when n <= 0
take(run, n) ==
    IF n <= 0 THEN Yields(<<>>)
    ELSE IF run.threw THEN Throws
    ELSE Yields(SubSeq(run.out, 1, Min(n, Len(run.out))))

\* what query yields for one filter of the list
QueryFilter(R, filter) ==
    IF filter.limit # <<>> /\ filter.limit[1] = 0 THEN Yields(<<>>)
    ELSE IF isNeverMatchingFilter(filter) THEN Yields(<<>>)
    ELSE LET lim == Min(IF filter.limit # <<>> THEN filter.limit[1] ELSE DefaultLimit, MaxLimit)
             buckets == selectIndex(R, filter)
         IN  IF Len(buckets) = 0 THEN Yields(<<>>)
             ELSE IF Len(buckets) = 1 THEN take(BucketQuery(R, buckets[1].events, filter), lim)
             ELSE take(mergedBuckets(R, buckets, filter), lim)
\* EventRepository.query: the events yielded, filter after filter, until one throws
RECURSIVE Query(_, _)
Query(R, filters) ==
    IF filters = <<>> THEN Yields(<<>>)
    ELSE LET q == QueryFilter(R, Head(filters))
         IN  IF q.threw THEN Throws
             ELSE LET rest == Query(R, Tail(filters))
                  IN  [threw |-> rest.threw, out |-> q.out \o rest.out]

\* ------------------------------------------------- message.ts: relay to client
EventFrame(subId, id) ==
    [type |-> "EVENT", subId |-> subId, id |-> id, ok |-> FALSE, msg |-> ""]
OkFrame(id, ok, msg) ==
    [type |-> "OK", subId |-> "", id |-> id, ok |-> ok, msg |-> msg]
EoseFrame(subId) ==
    [type |-> "EOSE", subId |-> subId, id |-> 0, ok |-> FALSE, msg |-> ""]
ClosedFrame(subId, msg) ==
    [type |-> "CLOSED", subId |-> subId, id |-> 0, ok |-> FALSE, msg |-> msg]

NoticeFrame(msg) ==
    [type |-> "NOTICE", subId |-> "", id |-> 0, ok |-> FALSE, msg |-> msg]

\* ------------------------------------------------- message.ts: client to relay
\* a JSON value: its type and, as far as the parser looks at it, its content (the
\* string itself; for an object whether it is an event or a filter)
J(t, v) ==
    [t |-> t, v |-> v]
\* an inbound frame: its text, whether JSON.parse accepts it, whether the value
\* is an array, and the elements of the array
Raw(text, json, array, elems) ==
    [text |-> text, json |-> json, array |-> array, elems |-> elems]
c2rMsgNames ==
    {"EVENT", "REQ", "CLOSE", "AUTH", "COUNT"}
supportedC2RMsgNames ==
    {"EVENT", "REQ", "CLOSE"}
\* `"id" in rawEv` raises a TypeError when rawEv is no object
isNostrEvent(j) ==
    IF j.t \notin {"object", "array"} THEN "throw"
    ELSE IF j.t = "object" /\ j.v = "event" THEN "true"
    ELSE "false"
\* `"ids" in raw` raises a TypeError when raw is no object
isReqFilter(j) ==
    IF j.t \notin {"object", "array"} THEN "throw"
    ELSE IF j.t = "object" /\ j.v = "badFilter" THEN "false"
    ELSE "true"
\* parsed.slice(2).some((f) => !isReqFilter(f))
RECURSIVE SomeNotReqFilter(_)
SomeNotReqFilter(fs) ==
    IF fs = <<>> THEN "false"
    ELSE LET r == isReqFilter(Head(fs))
         IN  IF r = "throw" THEN "throw"
             ELSE IF r = "false" THEN "true"
             ELSE SomeNotReqFilter(Tail(fs))
ParseOk ==
    [threw |-> FALSE, ok |-> TRUE, errType |-> "", msgType |-> ""]
ParseErr(errType, msgType) ==
    [threw |-> FALSE, ok |-> FALSE, errType |-> errType, msgType |-> msgType]
ParseThrows ==
    [threw |-> TRUE, ok |-> FALSE, errType |-> "", msgType |-> ""]
parseC2RMessage(raw) ==
    IF ~raw.json THEN ParseErr("malformed", "")
    ELSE IF ~raw.array \/ Len(raw.elems) = 0 \/ raw.elems[1].t # "string"
    THEN ParseErr("malformed", "")
    ELSE IF raw.elems[1].v \notin c2rMsgNames THEN ParseErr("malformed", "")
    ELSE IF raw.elems[1].v \notin supportedC2RMsgNames
    THEN ParseErr("unsupported", raw.elems[1].v)
    ELSE IF raw.elems[1].v = "EVENT"
    THEN IF Len(raw.elems) # 2 THEN ParseErr("malformed", "")
         ELSE IF isNostrEvent(raw.elems[2]) = "throw" THEN ParseThrows
         ELSE IF isNostrEvent(raw.elems[2]) = "false" THEN ParseErr("malformed", "")
         ELSE ParseOk
    ELSE IF raw.elems[1].v = "REQ"
    THEN IF Len(raw.elems) < 3 THEN ParseErr("malformed", "")
         ELSE IF raw.elems[2].t # "string" THEN ParseErr("malformed", "")
         ELSE IF SomeNotReqFilter(SubSeq(raw.elems, 3, Len(raw.elems))) = "throw"
         THEN ParseThrows
         ELSE IF SomeNotReqFilter(SubSeq(raw.elems, 3, Len(raw.elems))) = "true"
         THEN ParseErr("malformed", "")
         ELSE ParseOk
    ELSE IF Len(raw.elems) # 2 THEN ParseErr("malformed", "")
         ELSE IF raw.elems[2].t # "string" THEN ParseErr("malformed", "")
         ELSE ParseOk

\* the inbound frames that are no EVENT, REQ or CLOSE message
Raws ==
    { Raw("not json", FALSE, FALSE, <<>>),
      Raw("{}", TRUE, FALSE, <<>>),
      Raw("[]", TRUE, TRUE, <<>>),
      Raw("[1]", TRUE, TRUE, <<J("number", "1")>>),
      Raw("[\"AUTH\",\"x\"]", TRUE, TRUE, <<J("string", "AUTH"), J("string", "x")>>),
      Raw("[\"COUNT\",\"s\",{}]", TRUE, TRUE,
          <<J("string", "COUNT"), J("string", "s"), J("object", "filter")>>),
      Raw("[\"FOO\"]", TRUE, TRUE, <<J("string", "FOO")>>),
      Raw("[\"EVENT\"]", TRUE, TRUE, <<J("string", "EVENT")>>),
      Raw("[\"EVENT\",{}]", TRUE, TRUE, <<J("string", "EVENT"), J("object", "filter")>>),
      Raw("[\"EVENT\",1]", TRUE, TRUE, <<J("string", "EVENT"), J("number", "1")>>),
      Raw("[\"REQ\",\"s\"]", TRUE, TRUE, <<J("string", "REQ"), J("string", "s")>>),
      Raw("[\"REQ\",1,{}]", TRUE, TRUE,
          <<J("string", "REQ"), J("number", "1"), J("object", "filter")>>),
      Raw("[\"REQ\",\"s\",{\"ids\":1}]", TRUE, TRUE,
          <<J("string", "REQ"), J("string", "s"), J("object", "badFilter")>>),
      Raw("[\"REQ\",\"s\",1]", TRUE, TRUE,
          <<J("string", "REQ"), J("string", "s"), J("number", "1")>>),
      Raw("[\"CLOSE\"]", TRUE, TRUE, <<J("string", "CLOSE")>>),
      Raw("[\"CLOSE\",1]", TRUE, TRUE, <<J("string", "CLOSE"), J("number", "1")>>) }
RawOf(text) ==
    CHOOSE raw \in Raws : raw.text = text

\* ------------------------------------------------- the clients
Peers ==
    {"c1", "c2"}
SubIds ==
    {"s1"}

\* the filters of the queries examined in every repository state
Filters ==
    { Filter(U, U, U, U, U, U, U, U),
      Filter(<< <<5, 6>> >>, U, U, U, U, U, U, U),
      Filter(<< <<1, 2, 3>> >>, U, U, U, U, U, <<2>>, U),
      Filter(U, << <<"P">> >>, U, U, U, U, U, U),
      Filter(U, << <<"P", "Q">> >>, U, U, U, U, <<2>>, U),
      Filter(U, << <<"P">> >>, << <<0>> >>, U, U, U, U, U),
      Filter(U, U, << <<1>> >>, U, U, U, U, U),
      Filter(U, U, << <<0, 5>> >>, U, U, U, U, U),
      Filter(U, U, << <<1, 30000>> >>, U, U, U, U, <<1>>),
      Filter(U, U, << <<20000>> >>, U, U, U, U, U),
      Filter(U, U, U, << <<5, 7>> >>, U, U, U, U),
      Filter(U, U, U, << <<7>> >>, U, U, U, U),
      Filter(U, U, U, << <<7, 7>> >>, U, U, U, U),
      Filter(U, U, U, << <<5, 1>> >>, U, U, U, <<2>>),
      Filter(U, U, U, << <<5, 7>> >>, U, U, <<2>>, U),
      Filter(U, << <<"Q", "P">> >>, U, << <<7>> >>, U, U, U, U),
      Filter(U, U, << <<1>> >>, << <<5, 7>> >>, << <<"P">> >>, U, U, U),
      Filter(U, U, U, U, << <<"P", "Q">> >>, U, U, U),
      Filter(U, U, U, U, U, <<2>>, U, U),
      Filter(U, U, U, U, U, U, <<2>>, U),
      Filter(U, U, U, U, U, U, <<1>>, U),
      Filter(U, U, U, U, U, <<2>>, <<2>>, U),
      Filter(U, U, U, U, U, <<3>>, <<1>>, U),
      Filter(U, U, U, U, U, U, U, <<1>>),
      Filter(U, U, U, U, U, U, U, <<2>>),
      Filter(U, U, U, U, U, U, U, <<0>>),
      Filter(U, U, << <<>> >>, U, U, U, U, U) }

\* the filter lists of the REQ messages the clients send
FAll ==
    Filter(U, U, U, U, U, U, U, U)
FKindsDel ==
    Filter(U, << <<"P">> >>, << <<5, 20000>> >>, U, U, U, U, U)
FNever ==
    Filter(U, U, << <<>> >>, U, U, U, U, U)
ReqFilters ==
    { <<FAll>>, <<FNever, FKindsDel>>, <<FNever>> }
FLimit0 ==
    Filter(U, U, U, U, U, U, U, <<0>>)
FUntil ==
    Filter(U, U, U, U, U, U, <<2>>, U)
MsgReqFilters ==
    { <<FAll>>, <<FNever, FKindsDel>> }
ConnReqFilters ==
    { <<FAll>>, <<FNever, FKindsDel>>, <<FNever>>, <<FLimit0>>, <<FUntil>> }

\* ------------------------------------------------- state
VARIABLES
    repo,        \* the EventRepository
    subs,        \* SubscriptionPool.#subs, in the Map's insertion order
    conns,       \* launchRelay: the peers with a Connection
    activeSubs,  \* Connection.#activeSubs of each peer
    sent,        \* the frames sent to each peer while the last message was handled
    handled,     \* the message handled last and what ingest returned for it (for a
                 \* REQ its filters, for a CLOSE in ok whether the subId was active)
    crashed,     \* an exception escaped a message handler
    closing,     \* the peers whose socket the server closed, "close" event pending
    shuttingDown \* launchRelay: the shutdown function has run

vars ==
    <<repo, subs, conns, activeSubs, sent, handled, crashed, closing, shuttingDown>>

NothingSent ==
    [p \in Peers |-> <<>>]
Handled(op, peer, id, subId, insertion, ok, msg, broadcast) ==
    [op |-> op, peer |-> peer, id |-> id, subId |-> subId, insertion |-> insertion,
     ok |-> ok, msg |-> msg, broadcast |-> broadcast, filters |-> <<>>]

Init ==
    /\ repo = EmptyRepository
    /\ subs = <<>>
    /\ conns = {}
    /\ activeSubs = [p \in Peers |-> {}]
    /\ sent = NothingSent
    /\ handled = Handled("none", "", 0, "", "none", FALSE, "", FALSE)
    /\ crashed = FALSE
    /\ closing = {}
    /\ shuttingDown = FALSE

\* ------------------------------------------------- main.ts: SubscriptionPool
Subscription(peerId, subId, filters) ==
    [peerId |-> peerId, subId |-> subId, filters |-> filters]
SubIndex(ss, peerId, subId) ==
    {i \in 1..Len(ss) : ss[i].peerId = peerId /\ ss[i].subId = subId}
\* register that adds the subscription without looking for its key
PoolRegister_Append(ss, sub) ==
    Append(ss, sub)
\* Map.set: a key already present keeps its place
PoolRegister(ss, sub) ==
    IF SubIndex(ss, sub.peerId, sub.subId) # {}
    THEN [i \in 1..Len(ss) |-> IF i \in SubIndex(ss, sub.peerId, sub.subId) THEN sub ELSE ss[i]]
    ELSE Append(ss, sub)
\* unregister that removes nothing
PoolUnregister_Keep(ss, peerId, subId) ==
    ss
PoolUnregister(ss, peerId, subId) ==
    SelectSeq(ss, LAMBDA x : ~(x.peerId = peerId /\ x.subId = subId))
\* a close that unregisters nothing
UnregisterAll_Keep(ss, peerId, active) ==
    ss
\* Connection.close: unregister every active subscription of the peer
RECURSIVE UnregisterAll(_, _, _)
UnregisterAll(ss, peerId, active) ==
    IF active = {} THEN ss
    ELSE LET subId == CHOOSE x \in active : TRUE
         IN  UnregisterAll(PoolUnregister(ss, peerId, subId), peerId, active \ {subId})

\* a broadcast in which no subscription tests its filters
RECURSIVE PoolBroadcast_All(_, _, _)
PoolBroadcast_All(ss, ev, out) ==
    IF ss = <<>> THEN out
    ELSE LET sub == Head(ss)
         IN  PoolBroadcast_All(Tail(ss), ev,
                 [out EXCEPT ![sub.peerId] = Append(@, EventFrame(sub.subId, ev.id))])
\* SubscriptionPool.broadcast with Subscription.broadcast: the frames each peer gets
RECURSIVE PoolBroadcast(_, _, _)
PoolBroadcast(ss, ev, out) ==
    IF ss = <<>> THEN out
    ELSE LET sub == Head(ss)
         IN  PoolBroadcast(Tail(ss), ev,
                 IF matchFilters(sub.filters, ev)
                 THEN [out EXCEPT ![sub.peerId] = Append(@, EventFrame(sub.subId, ev.id))]
                 ELSE out)

\* ------------------------------------------------- main.ts: EventIngestor
verifyEvent(ev) ==
    ev.sigOk

Outcome(R, insertion, ok, msg, broadcast, frames) ==
    [repo |-> R, insertion |-> insertion, ok |-> ok, msg |-> msg,
     broadcast |-> broadcast, frames |-> frames]
\* ingest that broadcasts an event it already has
Ingest_BroadcastDup(R, ss, ev) ==
    IF ~verifyEvent(ev)
    THEN Outcome(R, "none", FALSE, "error: invalid signature", FALSE, NothingSent)
    ELSE IF validateEventSemantics(ev) = "no-dtag-in-param-replaceable"
    THEN Outcome(R, "none", FALSE, "error: no d-tag in parametarized replaceable event",
                 FALSE, NothingSent)
    ELSE LET ins == IF getEventHandling(ev) # "ephemeral"
                    THEN Insert(R, ev)
                    ELSE [repo |-> R, res |-> "none"]
         IN  IF ins.res = "duplicated"
             THEN Outcome(ins.repo, ins.res, TRUE, "duplicate: already have this event",
                          TRUE, PoolBroadcast(ss, ev, NothingSent))
             ELSE IF ins.res = "deleted"
             THEN Outcome(ins.repo, ins.res, FALSE, "error: already deleted this event",
                          FALSE, NothingSent)
             ELSE Outcome(ins.repo, ins.res, TRUE, "", TRUE,
                          PoolBroadcast(ss, ev, NothingSent))
\* ingest that inserts ephemeral events too
Ingest_StoreEphemeral(R, ss, ev) ==
    IF ~verifyEvent(ev)
    THEN Outcome(R, "none", FALSE, "error: invalid signature", FALSE, NothingSent)
    ELSE IF validateEventSemantics(ev) = "no-dtag-in-param-replaceable"
    THEN Outcome(R, "none", FALSE, "error: no d-tag in parametarized replaceable event",
                 FALSE, NothingSent)
    ELSE LET ins == Insert(R, ev)
         IN  IF ins.res = "duplicated"
             THEN Outcome(ins.repo, ins.res, TRUE, "duplicate: already have this event",
                          FALSE, NothingSent)
             ELSE IF ins.res = "deleted"
             THEN Outcome(ins.repo, ins.res, FALSE, "error: already deleted this event",
                          FALSE, NothingSent)
             ELSE Outcome(ins.repo, ins.res, TRUE, "", TRUE,
                          PoolBroadcast(ss, ev, NothingSent))
\* ingest that broadcasts before it looks at the Result of insert
Ingest_BroadcastFirst(R, ss, ev) ==
    IF ~verifyEvent(ev)
    THEN Outcome(R, "none", FALSE, "error: invalid signature", FALSE, NothingSent)
    ELSE IF validateEventSemantics(ev) = "no-dtag-in-param-replaceable"
    THEN Outcome(R, "none", FALSE, "error: no d-tag in parametarized replaceable event",
                 FALSE, NothingSent)
    ELSE LET ins == IF getEventHandling(ev) # "ephemeral"
                    THEN Insert(R, ev)
                    ELSE [repo |-> R, res |-> "none"]
             frames == PoolBroadcast(ss, ev, NothingSent)
         IN  IF ins.res = "duplicated"
             THEN Outcome(ins.repo, ins.res, TRUE, "duplicate: already have this event",
                          FALSE, frames)
             ELSE IF ins.res = "deleted"
             THEN Outcome(ins.repo, ins.res, FALSE, "error: already deleted this event",
                          FALSE, frames)
             ELSE Outcome(ins.repo, ins.res, TRUE, "", TRUE, frames)
\* ingest without the verification of the signature
Ingest_NoVerify(R, ss, ev) ==
    IF validateEventSemantics(ev) = "no-dtag-in-param-replaceable"
    THEN Outcome(R, "none", FALSE, "error: no d-tag in parametarized replaceable event",
                 FALSE, NothingSent)
    ELSE LET ins == IF getEventHandling(ev) # "ephemeral"
                    THEN Insert(R, ev)
                    ELSE [repo |-> R, res |-> "none"]
         IN  IF ins.res = "duplicated"
             THEN Outcome(ins.repo, ins.res, TRUE, "duplicate: already have this event",
                          FALSE, NothingSent)
             ELSE IF ins.res = "deleted"
             THEN Outcome(ins.repo, ins.res, FALSE, "error: already deleted this event",
                          FALSE, NothingSent)
             ELSE Outcome(ins.repo, ins.res, TRUE, "", TRUE,
                          PoolBroadcast(ss, ev, NothingSent))
\* EventIngestor.ingest: the repository after it, the Result of insert ("none" when
\* insert is not called), the outcome {ok, msg} and the frames of the broadcast
Ingest(R, ss, ev) ==
    IF ~verifyEvent(ev)
    THEN Outcome(R, "none", FALSE, "error: invalid signature", FALSE, NothingSent)
    ELSE IF validateEventSemantics(ev) = "no-dtag-in-param-replaceable"
    THEN Outcome(R, "none", FALSE, "error: no d-tag in parametarized replaceable event",
                 FALSE, NothingSent)
    ELSE LET ins == IF getEventHandling(ev) # "ephemeral"
                    THEN Insert(R, ev)
                    ELSE [repo |-> R, res |-> "none"]
         IN  IF ins.res = "duplicated"
             THEN Outcome(ins.repo, ins.res, TRUE, "duplicate: already have this event",
                          FALSE, NothingSent)
             ELSE IF ins.res = "deleted"
             THEN Outcome(ins.repo, ins.res, FALSE, "error: already deleted this event",
                          FALSE, NothingSent)
             ELSE Outcome(ins.repo, ins.res, TRUE, "", TRUE,
                          PoolBroadcast(ss, ev, NothingSent))

\* the model holds at most max events in eventsById
Room(ev, max) ==
    \/ ev.id \in DOMAIN repo.eventsById
    \/ Cardinality(DOMAIN repo.eventsById) < max

\* an EVENT handler that never calls sendOk
Ingested_NoOk(op, p, ev, o) ==
    /\ repo' = o.repo
    /\ sent' = o.frames
    /\ handled' = Handled(op, p, ev.id, "", o.insertion, o.ok, o.msg, o.broadcast)
\* an ingest whose broadcast does not happen in the step that stores the event
Ingested_NoBroadcast(op, p, ev, o) ==
    /\ repo' = o.repo
    /\ sent' = IF p \in Peers
               THEN [NothingSent EXCEPT ![p] = <<OkFrame(ev.id, o.ok, o.msg)>>]
               ELSE NothingSent
    /\ handled' = Handled(op, p, ev.id, "", o.insertion, o.ok, o.msg, o.broadcast)
\* the step that ends ingest with the outcome o: the repository is replaced, the
\* frames of the broadcast are sent and, on a connection, the OK frame after them
Ingested(op, p, ev, o) ==
    /\ repo' = o.repo
    /\ sent' = IF p \in Peers
               THEN [o.frames EXCEPT ![p] = Append(@, OkFrame(ev.id, o.ok, o.msg))]
               ELSE o.frames
    /\ handled' = Handled(op, p, ev.id, "", o.insertion, o.ok, o.msg, o.broadcast)

\* a call of EventIngestor.ingest(ev)
IngestEvent(ev) ==
    /\ ~crashed
    /\ Room(ev, MaxStored)
    /\ Ingested("ingest", "", ev, Ingest(repo, subs, ev))
    /\ UNCHANGED <<subs, conns, activeSubs, crashed, closing, shuttingDown>>

\* ------------------------------------------------- main.ts: launchRelay, Connection
\* the socket of the peer is open: its Connection handles the messages it sends
IsOpen(p) ==
    p \in conns \/ p \in closing

\* wsServer "connection": a new Connection for the peer (none after wsServer.close())
Connect(p) ==
    /\ ~crashed
    /\ ~shuttingDown
    /\ ~IsOpen(p)
    /\ conns' = conns \cup {p}
    /\ activeSubs' = [activeSubs EXCEPT ![p] = {}]
    /\ sent' = NothingSent
    /\ handled' = Handled("connect", p, 0, "", "none", FALSE, "", FALSE)
    /\ UNCHANGED <<repo, subs, crashed, closing, shuttingDown>>

\* ws "close": conn.close("client"), conns.delete(conn)
ClientClose(p) ==
    /\ ~crashed
    /\ IsOpen(p)
    /\ subs' = UnregisterAll(subs, p, activeSubs[p])
    /\ conns' = conns \ {p}
    /\ closing' = closing \ {p}
    /\ sent' = NothingSent
    /\ handled' = Handled("close", p, 0, "", "none", FALSE, "", FALSE)
    /\ UNCHANGED <<repo, activeSubs, crashed, shuttingDown>>

\* the loop of the shutdown function: conn.close("server") for every connection
RECURSIVE CloseAll(_, _)
CloseAll(ss, peers) ==
    IF peers = {} THEN ss
    ELSE LET p == CHOOSE x \in peers : TRUE
         IN  CloseAll(UnregisterAll(ss, p, activeSubs[p]), peers \ {p})
\* the shutdown function launchRelay returns (a second call returns at once); the
\* sockets it closes stay open until their "close" event
Shutdown ==
    /\ ~crashed
    /\ ~shuttingDown
    /\ shuttingDown' = TRUE
    /\ subs' = CloseAll(subs, conns)
    /\ closing' = closing \cup conns
    /\ conns' = {}
    /\ sent' = NothingSent
    /\ handled' = Handled("shutdown", "", 0, "", "none", FALSE, "", FALSE)
    /\ UNCHANGED <<repo, activeSubs, crashed>>

\* ws "message" with ["EVENT", ev]
OnEvent(p, ev) ==
    /\ ~crashed
    /\ IsOpen(p)
    /\ Room(ev, MaxRelayStored)
    /\ Ingested("EVENT", p, ev, Ingest(repo, subs, ev))
    /\ UNCHANGED <<subs, conns, activeSubs, crashed, closing, shuttingDown>>

\* a REQ handler that sends EOSE before the stored events
Requested_EoseFirst(p, subId, filters, q, effFilters) ==
    IF q.threw
    THEN /\ crashed' = TRUE
         /\ sent' = [NothingSent EXCEPT ![p] =
                       [i \in 1..Len(q.out) |-> EventFrame(subId, q.out[i])]]
         /\ UNCHANGED <<subs, activeSubs>>
    ELSE IF Len(effFilters) = 0
    THEN /\ sent' = [NothingSent EXCEPT ![p] =
                       <<EoseFrame(subId)>>
                       \o [i \in 1..Len(q.out) |-> EventFrame(subId, q.out[i])]
                       \o <<ClosedFrame(subId, "error: no effective filter")>>]
         /\ UNCHANGED <<subs, activeSubs, crashed>>
    ELSE /\ sent' = [NothingSent EXCEPT ![p] =
                       <<EoseFrame(subId)>>
                       \o [i \in 1..Len(q.out) |-> EventFrame(subId, q.out[i])]]
         /\ subs' = PoolRegister(subs, Subscription(p, subId, effFilters))
         /\ activeSubs' = [activeSubs EXCEPT ![p] = @ \cup {subId}]
         /\ UNCHANGED crashed
\* the REQ handler once repo.query(filters) has run as q: the stored events are
\* sent as they are yielded; an exception leaves the handler at once
Requested(p, subId, filters, q, effFilters) ==
    IF q.threw
    THEN /\ crashed' = TRUE
         /\ sent' = [NothingSent EXCEPT ![p] =
                       [i \in 1..Len(q.out) |-> EventFrame(subId, q.out[i])]]
         /\ UNCHANGED <<subs, activeSubs>>
    ELSE IF Len(effFilters) = 0
    THEN /\ sent' = [NothingSent EXCEPT ![p] =
                       [i \in 1..Len(q.out) |-> EventFrame(subId, q.out[i])]
                       \o <<EoseFrame(subId),
                            ClosedFrame(subId, "error: no effective filter")>>]
         /\ UNCHANGED <<subs, activeSubs, crashed>>
    ELSE /\ sent' = [NothingSent EXCEPT ![p] =
                       [i \in 1..Len(q.out) |-> EventFrame(subId, q.out[i])]
                       \o <<EoseFrame(subId)>>]
         /\ subs' = PoolRegister(subs, Subscription(p, subId, effFilters))
         /\ activeSubs' = [activeSubs EXCEPT ![p] = @ \cup {subId}]
         /\ UNCHANGED crashed
IsEffective(f) ==
    ~isNeverMatchingFilter(f)

\* ws "message" with ["REQ", subId, ...filters]
OnReq(p, subId, filters) ==
    /\ ~crashed
    /\ IsOpen(p)
    /\ Requested(p, subId, filters, Query(repo, filters), SelectSeq(filters, IsEffective))
    /\ handled' = [Handled("REQ", p, 0, subId, "none", FALSE, "", FALSE)
                       EXCEPT !.filters = filters]
    /\ UNCHANGED <<repo, conns, closing, shuttingDown>>

\* a CLOSE handler that unregisters the subscription and keeps the subId active
OnClose_KeepActive(p, subId) ==
    /\ ~crashed
    /\ IsOpen(p)
    /\ IF subId \in activeSubs[p]
       THEN subs' = PoolUnregister(subs, p, subId)
       ELSE UNCHANGED subs
    /\ sent' = NothingSent
    /\ handled' = Handled("CLOSE", p, 0, subId, "none", subId \in activeSubs[p], "", FALSE)
    /\ UNCHANGED <<repo, activeSubs, conns, crashed, closing, shuttingDown>>
\* ws "message" with ["CLOSE", subId]
OnClose(p, subId) ==
    /\ ~crashed
    /\ IsOpen(p)
    /\ IF subId \in activeSubs[p]
       THEN /\ subs' = PoolUnregister(subs, p, subId)
            /\ activeSubs' = [activeSubs EXCEPT ![p] = @ \ {subId}]
       ELSE UNCHANGED <<subs, activeSubs>>
    /\ sent' = NothingSent
    /\ handled' = Handled("CLOSE", p, 0, subId, "none", subId \in activeSubs[p], "", FALSE)
    /\ UNCHANGED <<repo, conns, crashed, closing, shuttingDown>>

\* the message handler once parseC2RMessage(rawMsg) has run as r without success:
\* a NOTICE is sent, or the TypeError of the parser leaves the handler
Answered(p, raw, r) ==
    IF r.threw
    THEN crashed' = TRUE /\ sent' = NothingSent
    ELSE /\ sent' = [NothingSent EXCEPT ![p] =
                       IF r.errType = "malformed"
                       THEN <<NoticeFrame("malformed message: " \o raw.text)>>
                       ELSE <<NoticeFrame("unsupported message type: " \o r.msgType)>>]
         /\ UNCHANGED crashed
\* ws "message" with a frame that is not parsed as an EVENT, REQ or CLOSE message
OnMessage(p, raw) ==
    /\ ~crashed
    /\ IsOpen(p)
    /\ ~parseC2RMessage(raw).ok
    /\ Answered(p, raw, parseC2RMessage(raw))
    /\ handled' = Handled("message", p, 0, "", "none", FALSE, raw.text, FALSE)
    /\ UNCHANGED <<repo, subs, conns, activeSubs, closing, shuttingDown>>

\* ------------------------------------------------- specifications
\* the relay: clients connect, send EVENT, REQ and CLOSE, and disconnect
Next ==
    \/ \E p \in Peers : Connect(p)
    \/ \E p \in Peers : ClientClose(p)
    \/ \E p \in Peers, ev \in RelayEvents : OnEvent(p, ev)
    \/ \E p \in Peers, subId \in SubIds, filters \in ReqFilters : OnReq(p, subId, filters)
    \/ \E p \in Peers, subId \in SubIds : OnClose(p, subId)
Spec ==
    Init /\ [][Next]_vars

\* the relay with clients that also send events it refuses and REQs with limit 0
\* and until, and with the shutdown of the server
NextConn ==
    \/ \E p \in Peers : Connect(p)
    \/ \E p \in Peers : ClientClose(p)
    \/ Shutdown
    \/ \E p \in Peers, ev \in ConnEvents : OnEvent(p, ev)
    \/ \E p \in Peers, subId \in SubIds, filters \in ConnReqFilters : OnReq(p, subId, filters)
    \/ \E p \in Peers, subId \in SubIds : OnClose(p, subId)
SpecConn ==
    Init /\ [][NextConn]_vars

\* the relay with clients that send events of every handling and outcome, and
\* frames that are no EVENT, REQ or CLOSE message
NextMsg ==
    \/ \E p \in Peers : Connect(p)
    \/ \E p \in Peers : ClientClose(p)
    \/ \E p \in Peers, ev \in MsgEvents : OnEvent(p, ev)
    \/ \E p \in Peers, subId \in SubIds, filters \in MsgReqFilters : OnReq(p, subId, filters)
    \/ \E p \in Peers, subId \in SubIds : OnClose(p, subId)
    \/ \E p \in Peers, raw \in Raws : OnMessage(p, raw)
SpecMsg ==
    Init /\ [][NextMsg]_vars

\* the relay with clients that use two subIds each, with REQs that have an
\* effective filter and REQs that have none
TwoSubIds ==
    {"s1", "s2"}
SubsReqFilters ==
    { <<FAll>>, <<FNever>> }
NextSubs ==
    \/ \E p \in Peers : Connect(p)
    \/ \E p \in Peers : ClientClose(p)
    \/ \E p \in Peers : OnEvent(p, E5)
    \/ \E p \in Peers, subId \in TwoSubIds, filters \in SubsReqFilters : OnReq(p, subId, filters)
    \/ \E p \in Peers, subId \in TwoSubIds : OnClose(p, subId)
SpecSubs ==
    Init /\ [][NextSubs]_vars

\* the repository under any sequence of ingested events, no client subscribed
NextRepo ==
    \E ev \in Events : IngestEvent(ev)
SpecRepo ==
    Init /\ [][NextRepo]_vars

\* getEventHandling on its own: the kinds around c, and the kinds it is called with
KindsNear(c) ==
    c - 3..c + 3
Kinds ==
    (-3..20) \cup UNION {KindsNear(c) : c \in {10000, 15000, 20000, 25000, 30000, 35000, 40000}}
\* an event of kind k is about to be classified
InitKind ==
    /\ repo = EmptyRepository
    /\ subs = <<>>
    /\ conns = {}
    /\ activeSubs = [p \in Peers |-> {}]
    /\ sent = NothingSent
    /\ \E k \in Kinds : handled = Handled("kind", "", k, "", "none", FALSE, "", FALSE)
    /\ crashed = FALSE
    /\ closing = {}
    /\ shuttingDown = FALSE
\* a call of getEventHandling(ev); its result is recorded in handled.msg
Classify ==
    /\ handled.op = "kind"
    /\ handled' = [handled EXCEPT !.op = "getEventHandling",
                                  !.msg = getEventHandling(Event(0, "P", 1, handled.id, <<>>, TRUE))]
    /\ UNCHANGED <<repo, subs, conns, activeSubs, sent, crashed, closing, shuttingDown>>
NextKind ==
    Classify
SpecKind ==
    InitKind /\ [][NextKind]_vars

\* ------------------------------------------------- properties
Stored(R) ==
    DOMAIN R.eventsById
IsDeleted(R, id) ==
    id \in Stored(R) /\ R.eventsById[id].deleted
\* the events query([f]) yields
Yielded(R, f) ==
    Query(R, <<f>>).out
InSeq(x, s) ==
    \E i \in 1..Len(s) : s[i] = x
Count(x, s) ==
    Cardinality({i \in 1..Len(s) : s[i] = x})
WasIngest ==
    handled.op \in {"ingest", "EVENT"}
IsReplaceable(ev) ==
    getEventHandling(ev) \in {"non-param-replaceable", "param-replaceable"}
\* the stored events of a replaceable address that are not flagged deleted
Retained(R, addr) ==
    {id \in Stored(R) : /\ IsReplaceable(EventOf(id))
                        /\ replaceableEventAddr(EventOf(id)) = addr
                        /\ ~R.eventsById[id].deleted}
\* min(f.limit ?? 500, 500)
LimitOf(f) ==
    IF f.limit = <<>> THEN 500 ELSE IF f.limit[1] < 500 THEN f.limit[1] ELSE 500
\* query([f]) runs the selected buckets (f has no limit 0 and can match)
Runs(f) ==
    ~(f.limit # <<>> /\ f.limit[1] = 0) /\ ~isNeverMatchingFilter(f)
IsEventFrame(fr) ==
    fr.type = "EVENT"
\* the kind-5 event d names the stored event t, by an e tag or by the a tag of its
\* replaceable address
Names(d, t) ==
    \/ SeqHas(getTagValuesByName(d, "e"), t.id)
    \/ IsReplaceable(t) /\ SeqHas(getTagValuesByName(d, "a"), replaceableEventAddr(t))

\* C1: when an event that a kind-5 event of its author deleted by e tag (its id is
\* in deletedEvents) is submitted again, insert returns "deleted" and ingest returns
\* {ok: false, msg: "error: already deleted this event"}.
C1_ResubmitDeleted ==
    (WasIngest /\ handled.id \in repo.deletedEvents) =>
        /\ handled.insertion = "deleted"
        /\ handled.ok = FALSE
        /\ handled.msg = "error: already deleted this event"

\* C2: for every replaceable address at most one stored event of that address is
\* not flagged deleted.
C2_OneRetainedPerAddress ==
    \A id \in Stored(repo) :
        IsReplaceable(EventOf(id)) =>
            Cardinality(Retained(repo, replaceableEventAddr(EventOf(id)))) <= 1

\* C3: when a kind-5 event signed by P is stored, every stored event of another
\* author Q that it names keeps its deleted flag and, when not flagged deleted, is
\* yielded by every query whose filter (without limit) it matches.
C3_ForeignDeletionHarmless ==
    [][\A d \in Events :
          (handled'.op = "ingest" /\ handled'.id = d.id /\ d.kind = 5
              /\ handled'.insertion = "ok") =>
            \A id \in Stored(repo) :
                (EventOf(id).pubkey # d.pubkey /\ Names(d, EventOf(id))) =>
                    /\ repo'.eventsById[id].deleted = repo.eventsById[id].deleted
                    /\ ~repo'.eventsById[id].deleted =>
                          \A f \in Filters :
                              (Runs(f) /\ f.limit = <<>> /\ matchFilter(f, EventOf(id)))
                                  => InSeq(id, Yielded(repo', f))]_vars

\* C4: an event flagged deleted is yielded by no query and is carried by no EVENT
\* frame sent to a client, be it the answer to a REQ or a broadcast.
C4_DeletedNeverSeen ==
    /\ \A f \in Filters : \A id \in Stored(repo) :
           IsDeleted(repo, id) => ~InSeq(id, Yielded(repo, f))
    /\ \A p \in Peers : \A i \in 1..Len(sent[p]) :
           IsEventFrame(sent[p][i]) => ~IsDeleted(repo, sent[p][i].id)
\* a REQ was answered with stored events while a stored event is flagged deleted
C4_Witness ==
    /\ handled.op = "REQ"
    /\ \E id \in Stored(repo) : IsDeleted(repo, id)
    /\ \E i \in 1..Len(sent[handled.peer]) : IsEventFrame(sent[handled.peer][i])

\* the order the replaceable events of one address are ranked by: greater created_at
\* first, the smaller id on a tie
Newer(x, y) ==
    \/ x.created_at > y.created_at
    \/ x.created_at = y.created_at /\ x.id < y.id
NoKind5(R) ==
    \A id \in Stored(R) : EventOf(id).kind # 5
\* the events of the address addr that query([f]) yields
AddrYield(R, f, addr) ==
    {id \in Stored(R) : /\ IsReplaceable(EventOf(id))
                        /\ replaceableEventAddr(EventOf(id)) = addr
                        /\ InSeq(id, Yielded(R, f))}
\* C5: while no kind-5 event is stored, after a replaceable event ev is ingested
\* the queries yield of its address exactly the event that is maximal, by
\* (created_at, then smaller id), among ev and the event yielded before: the
\* event yielded is the maximum of all events ingested, whatever their order.
C5_ReplaceableMaxWins ==
    [][\A ev \in Events :
          (handled'.op = "ingest" /\ handled'.id = ev.id /\ handled'.insertion # "none"
              /\ IsReplaceable(ev) /\ NoKind5(repo')) =>
            LET addr == replaceableEventAddr(ev)
                before == AddrYield(repo, FAll, addr)
                cand == before \cup {ev.id}
                best == CHOOSE x \in cand :
                            \A y \in cand \ {x} : Newer(EventOf(x), EventOf(y))
            IN  /\ Cardinality(before) <= 1
                /\ AddrYield(repo', FAll, addr) = {best}
                /\ Retained(repo', addr) = {best}
                /\ \A f \in Filters : AddrYield(repo', f, addr) \subseteq {best}]_vars
\* R2 was ingested after R1 and the older R3 of the same address, in some order
C5_Witness ==
    /\ handled.op = "ingest" /\ handled.id = 2 /\ handled.insertion = "ok"
    /\ NoKind5(repo)
    /\ {1, 3} \subseteq Stored(repo)
    /\ IsDeleted(repo, 3)
    /\ Yielded(repo, Filter(U, << <<"P">> >>, << <<0>> >>, U, U, U, U, U)) = <<1>>

\* C6: an EVENT message with an event whose id is stored is answered with
\* {ok: true, msg: "duplicate: already have this event"}, leaves the repository as
\* it is and sends no EVENT frame to any client.
C6_DuplicateIdempotent ==
    [][\A ev \in RelayEvents :
          (handled'.op = "EVENT" /\ handled'.id = ev.id /\ verifyEvent(ev)
              /\ ev.id \in Stored(repo)) =>
            /\ handled'.ok = TRUE
            /\ handled'.msg = "duplicate: already have this event"
            /\ repo' = repo
            /\ \A p \in Peers : \A i \in 1..Len(sent'[p]) : ~IsEventFrame(sent'[p][i])
            /\ sent'[handled'.peer] = <<OkFrame(ev.id, TRUE, handled'.msg)>>]_vars
\* a stored event was submitted again while a subscription matching it is registered
C6_Witness ==
    /\ handled.op = "EVENT"
    /\ handled.insertion = "duplicated"
    /\ \E i \in 1..Len(subs) : matchFilters(subs[i].filters, EventOf(handled.id))

\* C7: every event query([f]) yields matches f, is stored and not flagged deleted,
\* and the yielded sequence is in non-increasing created_at.
C7_QuerySound ==
    \A f \in Filters :
        LET out == Yielded(repo, f)
        IN  /\ \A i \in 1..Len(out) :
                  /\ out[i] \in Stored(repo)
                  /\ ~repo.eventsById[out[i]].deleted
                  /\ matchFilter(f, EventOf(out[i]))
            /\ \A i \in 1..Len(out) - 1 :
                  EventOf(out[i]).created_at >= EventOf(out[i + 1]).created_at
\* the merged path yields three events of two created_at, and an event it passes
\* over is flagged deleted
C7_Witness ==
    LET f == Filter(U, U, U, << <<5, 7>> >>, U, U, U, U)
        out == Yielded(repo, f)
    IN  /\ Len(selectIndex(repo, f)) = 2
        /\ Len(out) >= 3
        /\ EventOf(out[1]).created_at > EventOf(out[Len(out)]).created_at
        /\ \E id \in Stored(repo) : IsDeleted(repo, id)

\* C8: query([f]) yields at most min(f.limit ?? 500, 500) events.
C8_QueryLimit ==
    \A f \in Filters : Len(Yielded(repo, f)) <= LimitOf(f)
\* a filter with limit 1 yields one event of the three stored events that match it
C8_Witness ==
    /\ Len(Yielded(repo, Filter(U, U, U, U, U, U, U, <<1>>))) = 1
    /\ Len(Yielded(repo, FAll)) >= 3

\* C9: when query([f]) merges several buckets, an event that lies in several of them,
\* matches f and is not flagged deleted is yielded exactly once (unless the limit
\* ends the query).
C9_MergedOnce ==
    \A f \in Filters :
        Runs(f) =>
            LET its == IterMap(selectIndex(repo, f), {})
                out == Yielded(repo, f)
            IN  Len(its) >= 2 =>
                    \A id \in Stored(repo) :
                        (/\ Cardinality({i \in 1..Len(its) : InSeq(id, its[i].events)}) >= 2
                         /\ ~repo.eventsById[id].deleted
                         /\ matchFilter(f, EventOf(id))
                         /\ Len(out) < LimitOf(f))
                            => Count(id, out) = 1

\* the EVENT frames sent to p are one for each subscription of p that matches ev
BroadcastTo(p, ev, ss, frames) ==
    LET got == SelectSeq(frames, IsEventFrame)
        want == {i \in 1..Len(ss) : ss[i].peerId = p /\ matchFilters(ss[i].filters, ev)}
    IN  /\ Len(got) = Cardinality(want)
        /\ \A i \in want : InSeq(EventFrame(ss[i].subId, ev.id), got)
\* C10: an ephemeral event is never stored and no query yields it; an EVENT message
\* with an ephemeral event leaves the repository as it is, is answered with
\* {ok: true, msg: ""} and sends the event to the subscriptions that match it, and
\* to no other.
C10_Ephemeral ==
    [][/\ \A ev \in RelayEvents : isEphemeralEvent(ev) => ev.id \notin Stored(repo')
       /\ \A ev \in RelayEvents :
              (handled'.op = "EVENT" /\ handled'.id = ev.id /\ verifyEvent(ev)
                  /\ isEphemeralEvent(ev)) =>
                /\ repo' = repo
                /\ \A f \in Filters : ~InSeq(ev.id, Yielded(repo', f))
                /\ handled'.ok = TRUE /\ handled'.msg = ""
                /\ \A p \in Peers : BroadcastTo(p, ev, subs, sent'[p])]_vars
\* the ephemeral X10 was sent to a subscriber; another connected client, without a
\* subscription that matches it, got nothing
C10_Witness ==
    /\ handled.op = "EVENT" /\ handled.id = 10
    /\ \E p \in Peers : InSeq(EventFrame("s1", 10), sent[p])
    /\ \E p \in Peers \ {handled.peer} : p \in conns /\ sent[p] = <<>>

\* an EVENT frame is sent to some client
SomeEventFrame(frames) ==
    \E p \in Peers : \E i \in 1..Len(frames[p]) : IsEventFrame(frames[p][i])
\* C11: an EVENT message leads to a broadcast exactly when insert returned ok, the
\* event then being stored, or when the event is ephemeral and insert was not
\* called; when insert returned "duplicated" or "deleted" no EVENT frame is sent.
C11_BroadcastAfterInsert ==
    [][\A ev \in ConnEvents :
          (handled'.op = "EVENT" /\ handled'.id = ev.id) =>
            /\ handled'.broadcast <=>
                  \/ handled'.insertion = "ok"
                  \/ handled'.insertion = "none" /\ handled'.ok /\ isEphemeralEvent(ev)
            /\ handled'.insertion = "ok" => (ev.id \notin Stored(repo) /\ ev.id \in Stored(repo'))
            /\ SomeEventFrame(sent') => handled'.broadcast
            /\ handled'.insertion \in {"duplicated", "deleted"} =>
                  (~handled'.broadcast /\ ~SomeEventFrame(sent'))]_vars
\* E5 was stored by this EVENT message and sent to a subscriber
C11_Witness ==
    /\ handled.op = "EVENT" /\ handled.id = 5 /\ handled.insertion = "ok"
    /\ \E p \in Peers : InSeq(EventFrame("s1", 5), sent[p])

\* the parameterized replaceable event has no d tag
LacksDTag(ev) ==
    /\ 30000 <= ev.kind /\ ev.kind < 40000
    /\ \A i \in 1..Len(ev.tags) : ev.tags[i][1] # "d"
\* C12: an EVENT message whose event fails the signature verification, or is
\* parameterized replaceable without a d tag, is answered with ok = false, leaves
\* the repository as it is and sends no EVENT frame.
C12_InvalidRefused ==
    [][\A ev \in ConnEvents :
          (handled'.op = "EVENT" /\ handled'.id = ev.id /\ (~ev.sigOk \/ LacksDTag(ev))) =>
            /\ handled'.ok = FALSE
            /\ repo' = repo
            /\ ~SomeEventFrame(sent')
            /\ \E msg \in {"error: invalid signature",
                          "error: no d-tag in parametarized replaceable event"} :
                  sent'[handled'.peer] = <<OkFrame(ev.id, FALSE, msg)>>]_vars
\* an event the relay refuses was submitted while a subscription matching it is
\* registered
C12_Witness ==
    /\ handled.op = "EVENT" /\ handled.id \in {11, 12}
    /\ \E i \in 1..Len(subs) :
           \E ev \in {B11, N12} : ev.id = handled.id /\ matchFilters(subs[i].filters, ev)

\* the subscription keyed (p, s) is new in the pool, or has new filters
Registered(p, s) ==
    /\ SubIndex(subs', p, s) # {}
    /\ \A i \in SubIndex(subs', p, s) : \A j \in SubIndex(subs, p, s) : subs'[i] # subs[j]
\* C13: the frames a REQ with subId s is answered with are the stored events, as
\* EVENT frames with s, and then EOSE s, no EVENT frame after it; the subscription
\* (peer, s) is registered by that step only, and a broadcast sends an EVENT frame
\* for s to the peer only through a subscription registered by an earlier step, so
\* after the EOSE of its REQ.
C13_EventsEoseBroadcasts ==
    [][/\ (handled'.op = "REQ" /\ ~crashed') =>
              LET fr == sent'[handled'.peer]
                  s == handled'.subId
                  out == Query(repo, handled'.filters).out
              IN  /\ Len(fr) > Len(out)
                  /\ \A i \in 1..Len(out) : fr[i] = EventFrame(s, out[i])
                  /\ fr[Len(out) + 1] = EoseFrame(s)
                  /\ \A i \in Len(out) + 2..Len(fr) : ~IsEventFrame(fr[i])
                  /\ \A p \in Peers \ {handled'.peer} : sent'[p] = <<>>
       /\ \A p \in Peers, s \in SubIds :
              Registered(p, s) =>
                  /\ handled'.op = "REQ" /\ handled'.peer = p /\ handled'.subId = s
                  /\ InSeq(EoseFrame(s), sent'[p])
       /\ handled'.op = "EVENT" =>
              \A p \in Peers : \A i \in 1..Len(sent'[p]) :
                  IsEventFrame(sent'[p][i]) => SubIndex(subs, p, sent'[p][i].subId) # {}]_vars
\* a REQ was answered with two stored events and EOSE, and its subscription is
\* registered
C13_Witness ==
    /\ handled.op = "REQ"
    /\ sent[handled.peer] = <<EventFrame("s1", 7), EventFrame("s1", 5), EoseFrame("s1")>>
    /\ SubIndex(subs, handled.peer, "s1") # {}

\* C14: when ingest reaches the broadcast step, each peer gets one EVENT frame, with
\* the subId, for each of its registered subscriptions that has a filter matching
\* the event, and no other EVENT frame.
C14_BroadcastToMatching ==
    [][\A ev \in ConnEvents :
          (handled'.op = "EVENT" /\ handled'.id = ev.id /\ handled'.broadcast) =>
            \A p \in Peers :
                /\ BroadcastTo(p, ev, subs, sent'[p])
                /\ \A s \in SubIds :
                       Count(EventFrame(s, ev.id), sent'[p]) =
                           IF \E i \in SubIndex(subs, p, s) : matchFilters(subs[i].filters, ev)
                           THEN 1 ELSE 0]_vars
\* E5 was broadcast: one subscriber got it, the subscription of the other does
\* not match it
C14_Witness ==
    /\ handled.op = "EVENT" /\ handled.id = 5 /\ handled.broadcast
    /\ Len(subs) = 2
    /\ \E p \in Peers : Count(EventFrame("s1", 5), sent[p]) = 1
    /\ \E i \in 1..Len(subs) : ~matchFilters(subs[i].filters, E5) /\ sent[subs[i].peerId] = <<>>

\* trivially unsatisfiable: an array-typed field is present and empty, or
\* since > until
TriviallyUnsatisfiable(f) ==
    \/ \E a \in {f.ids, f.authors, f.kinds, f.tagE, f.tagP} : a # <<>> /\ a[1] = <<>>
    \/ f.since # <<>> /\ f.until # <<>> /\ f.since[1] > f.until[1]
\* the two last frames sent to the peer of the REQ are EOSE and the CLOSED frame
EndsClosed(frames, s) ==
    /\ Len(frames) >= 2
    /\ frames[Len(frames) - 1] = EoseFrame(s)
    /\ frames[Len(frames)] = ClosedFrame(s, "error: no effective filter")
\* C15: after a REQ with subId s whose filters are all trivially unsatisfiable the
\* peer was sent EOSE s and then CLOSED s "error: no effective filter", and the
\* pool has no subscription keyed (peer, s).
C15_NoEffectiveFilter ==
    (/\ handled.op = "REQ"
     /\ \A i \in 1..Len(handled.filters) : TriviallyUnsatisfiable(handled.filters[i])) =>
        /\ EndsClosed(sent[handled.peer], handled.subId)
        /\ SubIndex(subs, handled.peer, handled.subId) = {}

\* C16: after a REQ whose only filter has limit 0 the peer was sent no EVENT frame,
\* the REQ was closed with CLOSED "error: no effective filter", and the pool has no
\* subscription keyed (peer, subId).
C16_LimitZeroClosed ==
    (/\ handled.op = "REQ"
     /\ Len(handled.filters) = 1
     /\ handled.filters[1].limit = <<0>>) =>
        /\ ~SomeEventFrame(sent)
        /\ EndsClosed(sent[handled.peer], handled.subId)
        /\ SubIndex(subs, handled.peer, handled.subId) = {}

\* C17: the pool has at most one subscription per (peerId, subId); a REQ with
\* effective filters under a subId the peer has registered leaves the one
\* subscription of that key with the new effective filters, in a pool of the same
\* size, and a broadcast sends a matching event once per key, as the filters
\* registered last decide.
C17_OnePerKey ==
    [][/\ \A p \in Peers, s \in SubIds : Cardinality(SubIndex(subs', p, s)) <= 1
       /\ (/\ handled'.op = "REQ" /\ ~crashed'
           /\ SubIndex(subs, handled'.peer, handled'.subId) # {}
           /\ \E i \in 1..Len(handled'.filters) :
                  ~TriviallyUnsatisfiable(handled'.filters[i])) =>
              /\ Len(subs') = Len(subs)
              /\ \A i \in SubIndex(subs', handled'.peer, handled'.subId) :
                     subs'[i].filters =
                         SelectSeq(handled'.filters, LAMBDA f : ~TriviallyUnsatisfiable(f))
       /\ \A ev \in ConnEvents :
              (handled'.op = "EVENT" /\ handled'.id = ev.id /\ handled'.broadcast) =>
                  \A p \in Peers, s \in SubIds :
                      /\ Count(EventFrame(s, ev.id), sent'[p]) <= 1
                      /\ InSeq(EventFrame(s, ev.id), sent'[p]) <=>
                             \E i \in SubIndex(subs, p, s) :
                                 matchFilters(subs[i].filters, ev)]_vars
\* the peer whose subscription came first into the pool sent another REQ under its
\* subId, and the subscription has the filters of that REQ
C17_Witness ==
    /\ handled.op = "REQ"
    /\ Len(subs) = 2
    /\ subs[1] = Subscription(handled.peer, handled.subId, <<FKindsDel>>)
    /\ handled.filters = <<FNever, FKindsDel>>

\* the subscriptions of the pool but those of the set drop, in their order
Without(ss, drop) ==
    SelectSeq(ss, LAMBDA x : <<x.peerId, x.subId>> \notin drop)
\* C18: a CLOSE for an active subId removes the subscription (peer, subId) from the
\* pool and the subId from the active set, the other subscriptions staying; a CLOSE
\* for a subId that is not active changes neither; both send no frame.  An event
\* ingested later sends no EVENT frame for a key that is not in the pool.
C18_CloseUnregisters ==
    [][/\ handled'.op = "CLOSE" =>
              LET p == handled'.peer
                  s == handled'.subId
              IN  /\ sent' = NothingSent
                  /\ IF s \in activeSubs[p]
                     THEN /\ SubIndex(subs', p, s) = {}
                          /\ s \notin activeSubs'[p]
                          /\ subs' = Without(subs, {<<p, s>>})
                          /\ \A q \in Peers \ {p} : activeSubs'[q] = activeSubs[q]
                     ELSE subs' = subs /\ activeSubs' = activeSubs
       /\ handled'.op = "EVENT" =>
              \A p \in Peers, s \in SubIds :
                  SubIndex(subs, p, s) = {} =>
                      \A i \in 1..Len(sent'[p]) :
                          ~(IsEventFrame(sent'[p][i]) /\ sent'[p][i].subId = s)]_vars
\* a CLOSE for an active subId was handled: the subscription of the peer is gone,
\* that of the other peer is still in the pool
C18_Witness ==
    /\ handled.op = "CLOSE" /\ handled.ok
    /\ Len(subs) = 1
    /\ subs[1].peerId # handled.peer

\* C19: when the socket of a peer is closed the pool has no subscription of the
\* peer left and the subscriptions of the other peers are as before; the shutdown
\* removes the subscriptions of every connection; the pool never holds a
\* subscription of a peer without an open socket, and a peer without a subscription
\* in the pool is sent no EVENT frame by a broadcast.
C19_TerminationUnregisters ==
    [][/\ handled'.op = "close" =>
              /\ \A i \in 1..Len(subs') : subs'[i].peerId # handled'.peer
              /\ subs' = SelectSeq(subs, LAMBDA x : x.peerId # handled'.peer)
       /\ handled'.op = "shutdown" =>
              /\ \A i \in 1..Len(subs') : subs'[i].peerId \notin conns
              /\ subs' = SelectSeq(subs, LAMBDA x : x.peerId \notin conns)
              /\ conns' = {}
       /\ \A i \in 1..Len(subs') : subs'[i].peerId \in conns' \cup closing'
       /\ handled'.op = "EVENT" =>
              \A p \in Peers :
                  (\A i \in 1..Len(subs) : subs[i].peerId # p) =>
                      \A i \in 1..Len(sent'[p]) : ~IsEventFrame(sent'[p][i])]_vars
\* the socket of a peer with an active subscription was closed: its subscription
\* is gone, that of the other peer is still in the pool
C19_Witness ==
    /\ handled.op = "close"
    /\ activeSubs[handled.peer] # {}
    /\ ~IsOpen(handled.peer)
    /\ Len(subs) = 1
    /\ subs[1].peerId # handled.peer

\* C20: handling a REQ raises no error: whatever the repository holds and whatever
\* the filters are, the query ends and the peer is sent EOSE.
C20_ReqNeverThrows ==
    handled.op = "REQ" =>
        /\ ~crashed
        /\ InSeq(EoseFrame(handled.subId), sent[handled.peer])

\* C21: a stored kind-5 event is never flagged deleted, its id is never recorded
\* as deleted, and the queries for all events and for its kind yield it, whatever
\* events were inserted, kind-5 events naming it by e tag included.
C21_DeletionNeverDeleted ==
    \A id \in Stored(repo) :
        EventOf(id).kind = 5 =>
            /\ ~repo.eventsById[id].deleted
            /\ id \notin repo.deletedEvents
            /\ InSeq(id, Yielded(repo, FAll))
            /\ InSeq(id, Yielded(repo, Filter(U, U, << <<0, 5>> >>, U, U, U, U, U)))
\* D7, which names itself by e tag, is stored, and D8 of the same author, which
\* names D7, was stored after it
C21_Witness ==
    /\ handled.op = "ingest" /\ handled.id = 8 /\ handled.insertion = "ok"
    /\ 7 \in Stored(repo)
    /\ SeqHas(getTagValuesByName(D7, "e"), 7)
    /\ SeqHas(getTagValuesByName(D8, "e"), 7)
    /\ D7.pubkey = D8.pubkey

\* the OK frames among frames
OkFrames(frames) ==
    SelectSeq(frames, LAMBDA fr : fr.type = "OK")
\* C22: an EVENT message with the event ev is answered with exactly one OK frame,
\* sent to the sender as the last frame of the step, that carries the id of ev and
\* the ok and msg ingest returned for it; no other connection gets an OK frame.
\* This holds for every handling of ev and every outcome of ingest.
C22_OneOkPerEvent ==
    [][handled'.op = "EVENT" =>
          LET ev == EventOf(handled'.id)
              p == handled'.peer
              o == Ingest(repo, subs, ev)
          IN  /\ OkFrames(sent'[p]) = <<OkFrame(ev.id, o.ok, o.msg)>>
              /\ sent'[p][Len(sent'[p])] = OkFrame(ev.id, o.ok, o.msg)
              /\ \A q \in Peers \ {p} : OkFrames(sent'[q]) = <<>>]_vars
\* the replaceable event R1 was stored, sent to the subscription of its sender and
\* then answered with OK
C22_Witness ==
    /\ handled.op = "EVENT" /\ handled.id = 1 /\ handled.insertion = "ok"
    /\ sent[handled.peer] = <<EventFrame("s1", 1), OkFrame(1, TRUE, "")>>

\* C23: the handler of an EVENT message is one step: it leaves the pool and the
\* active subscriptions as they are, stores no event but its own, and when it
\* stores the event every subscription registered before it whose filters match
\* gets the EVENT frame in that very step; the EVENT frames of the step are all
\* for this event.  No other step changes the repository, and the EVENT frames of
\* another step are those of a REQ: stored events, sent to the requester before
\* EOSE, so a subscription registered later gets the event as a stored event only.
C23_IngestAtomic ==
    [][/\ handled'.op = "EVENT" =>
              LET ev == EventOf(handled'.id)
              IN  /\ subs' = subs /\ activeSubs' = activeSubs /\ conns' = conns
                  /\ Stored(repo') \subseteq Stored(repo) \cup {ev.id}
                  /\ ev.id \in Stored(repo') \ Stored(repo) =>
                         \A i \in 1..Len(subs) :
                             matchFilters(subs[i].filters, ev) =>
                                 InSeq(EventFrame(subs[i].subId, ev.id), sent'[subs[i].peerId])
                  /\ \A q \in Peers : \A i \in 1..Len(sent'[q]) :
                         IsEventFrame(sent'[q][i]) => sent'[q][i].id = ev.id
       /\ handled'.op # "EVENT" =>
              /\ repo' = repo
              /\ \A q \in Peers : \A i \in 1..Len(sent'[q]) :
                     IsEventFrame(sent'[q][i]) =>
                         /\ handled'.op = "REQ" /\ handled'.peer = q
                         /\ sent'[q][i].id \in Stored(repo)
                         /\ \E j \in i + 1..Len(sent'[q]) :
                                sent'[q][j] = EoseFrame(handled'.subId)]_vars
\* both connections had a subscription when R1 was stored, and both got it in the
\* step that stored it
C23_Witness ==
    /\ handled.op = "EVENT" /\ handled.id = 1 /\ handled.insertion = "ok"
    /\ Len(subs) = 2
    /\ \A p \in Peers : InSeq(EventFrame("s1", 1), sent[p])
\* a subscription registered after R1 was stored gets it as a stored event
C23_Later ==
    /\ handled.op = "REQ"
    /\ sent[handled.peer] = <<EventFrame("s1", 1), EoseFrame("s1")>>
    /\ SubIndex(subs, handled.peer, "s1") # {}

\* the NOTICE of the statement: unsupported for an array that starts with a string
\* other than EVENT, REQ and CLOSE, malformed for every other frame that is refused
ExpectedNotice(raw) ==
    IF /\ raw.json /\ raw.array /\ Len(raw.elems) > 0
       /\ raw.elems[1].t = "string"
       /\ raw.elems[1].v \notin {"EVENT", "REQ", "CLOSE"}
    THEN NoticeFrame("unsupported message type: " \o raw.elems[1].v)
    ELSE NoticeFrame("malformed message: " \o raw.text)
\* C24: a frame that is not parsed as an EVENT, REQ or CLOSE message is answered
\* with one NOTICE: "unsupported message type: <type>" when it is an array whose
\* first element is a string other than EVENT, REQ and CLOSE, and "malformed
\* message: <raw>" otherwise; the repository and the pool are unchanged.
C24_ParseErrorNotice ==
    [][handled'.op = "message" =>
          /\ ~crashed'
          /\ sent'[handled'.peer] = <<ExpectedNotice(RawOf(handled'.msg))>>
          /\ repo' = repo /\ subs' = subs]_vars
\* the part of C24 that the handler keeps: AUTH and COUNT are reported as
\* unsupported, a refused frame never changes the repository or the pool
C24_KnownTypes ==
    [][handled'.op = "message" =>
          /\ repo' = repo /\ subs' = subs
          /\ RawOf(handled'.msg).elems # <<>> /\ RawOf(handled'.msg).elems[1].v \in {"AUTH", "COUNT"}
                 => sent'[handled'.peer] = <<ExpectedNotice(RawOf(handled'.msg))>>]_vars

\* the class the statement gives the kind k
ClassOf(k) ==
    IF k = 0 \/ k = 3 \/ k \in 10000..19999 THEN "non-param-replaceable"
    ELSE IF k \in 20000..29999 THEN "ephemeral"
    ELSE IF k \in 30000..39999 THEN "param-replaceable"
    ELSE "regular"
\* C25: getEventHandling returns, for every kind, the one class the statement
\* gives it: non-param-replaceable for 0, 3 and 10000..19999, ephemeral for
\* 20000..29999, param-replaceable for 30000..39999, regular for any other kind
\* (5 among them); at most one of the three range tests holds for a kind.
C25_HandlingPartition ==
    handled.op = "getEventHandling" =>
        LET ev == Event(0, "P", 1, handled.id, <<>>, TRUE)
        IN  /\ handled.msg = ClassOf(handled.id)
            /\ Cardinality({c \in {"n", "p", "e"} :
                              \/ c = "n" /\ isNonParamReplaceableEvent(ev)
                              \/ c = "p" /\ isParamReplaceableEvent(ev)
                              \/ c = "e" /\ isEphemeralEvent(ev)})
                 = IF handled.msg = "regular" THEN 0 ELSE 1
\* kind 20000, the first ephemeral kind, was classified
C25_Witness ==
    /\ handled.op = "getEventHandling" /\ handled.id = 20000
    /\ handled.msg = "ephemeral"
\* kind 5 was classified as regular
C25_Kind5 ==
    handled.op = "getEventHandling" /\ handled.id = 5 /\ handled.msg = "regular"

\* the index has a bucket for key, and the event id is in it
InBucket(buckets, key, id) ==
    key \in DOMAIN buckets /\ InSeq(id, buckets[key])
\* C26: every stored event is in allEventsSorted, in the bucket of its pubkey, in
\* the bucket of its kind, and in the bucket of every value of its e tags and of
\* its p tags, whether or not those buckets existed before it was stored.
C26_StoredInEveryBucket ==
    \A id \in Stored(repo) :
        LET ev == EventOf(id)
            es == getTagValuesByName(ev, "e")
            ps == getTagValuesByName(ev, "p")
        IN  /\ InSeq(id, repo.allEventsSorted)
            /\ InBucket(repo.indices.author, ev.pubkey, id)
            /\ InBucket(repo.indices.kind, ev.kind, id)
            /\ \A i \in 1..Len(es) : InBucket(repo.indices.eTag, es[i], id)
            /\ \A i \in 1..Len(ps) : InBucket(repo.indices.pTag, ps[i], id)

\* the buckets of the repository: allEventsSorted and every bucket of every index
Buckets(R) ==
    {R.allEventsSorted}
        \cup {R.indices.author[k] : k \in DOMAIN R.indices.author}
        \cup {R.indices.kind[k] : k \in DOMAIN R.indices.kind}
        \cup {R.indices.eTag[k] : k \in DOMAIN R.indices.eTag}
        \cup {R.indices.pTag[k] : k \in DOMAIN R.indices.pTag}
\* the values of until examined: below, at and above every created_at
Untils ==
    0..4
\* the largest 0-based index of events whose created_at is at most u, or -1
LastAtMost(events, u) ==
    LET at == {i \in 1..Len(events) : EventOf(events[i]).created_at <= u}
    IN  IF at = {} THEN -1 ELSE (CHOOSE i \in at : \A j \in at : j <= i) - 1
\* C27: in every bucket that holds an event, for every until u, the iteration
\* starts at the largest index whose created_at is at most u (-1 if there is
\* none), and the query of the bucket of all events with {until: u} yields every
\* stored event that is not deleted and has created_at at most u.
C27_UntilStart ==
    /\ \A b \in Buckets(repo) : \A u \in Untils :
           b # <<>> => searchStartIndex(b, u).idx = LastAtMost(b, u)
    /\ \A u \in Untils :
           repo.allEventsSorted # <<>> =>
               \A id \in Stored(repo) :
                   (~repo.eventsById[id].deleted /\ EventOf(id).created_at <= u)
                       => InSeq(id, Yielded(repo, Filter(U, U, U, U, U, U, <<u>>, U)))

\* the events of S in descending event order: newest first, the smaller id first
\* among equal created_at
RECURSIVE Descending(_)
Descending(S) ==
    IF S = {} THEN <<>>
    ELSE LET top == CHOOSE x \in S : \A y \in S \ {x} : Newer(EventOf(x), EventOf(y))
         IN  <<top>> \o Descending(S \ {top})
\* the reference result: scan every stored event that is not deleted and matches f
Reference(R, f) ==
    Descending({id \in Stored(R) : ~R.eventsById[id].deleted /\ matchFilter(f, EventOf(id))})
\* C28: for every filter f, query([f]) yields the first min(f.limit ?? 500, 500)
\* events of the reference result, whichever index is selected.
C28_QueryIsReference ==
    \A f \in Filters :
        LET ref == Reference(repo, f)
        IN  Yielded(repo, f) = SubSeq(ref, 1, Min(LimitOf(f), Len(ref)))

\* C29: when a kind-5 event of R is stored that has an a tag naming an address
\* whose tracked event was written by another author, the tracker has the same
\* entry for the address afterwards and the tracked event keeps deleted = false.
C29_ForeignAddrDeletion ==
    [][(handled'.op = "ingest" /\ handled'.insertion = "ok"
            /\ EventOf(handled'.id).kind = 5) =>
          LET d == EventOf(handled'.id)
              as == getTagValuesByName(d, "a")
          IN  \A i \in 1..Len(as) :
                  (/\ as[i] \in DOMAIN repo.reTracker
                   /\ EventOf(repo.reTracker[as[i]]).pubkey # d.pubkey) =>
                      /\ as[i] \in DOMAIN repo'.reTracker
                      /\ repo'.reTracker[as[i]] = repo.reTracker[as[i]]
                      /\ repo'.eventsById[repo.reTracker[as[i]]].deleted
                             = repo.eventsById[repo.reTracker[as[i]]].deleted]_vars

\* events is sorted ascending: created_at ascending, and among equal created_at
\* the larger id before the smaller (an entry may occur twice)
SortedAscending(events) ==
    \A i \in 1..Len(events) - 1 :
        LET x == EventOf(events[i])
            y == EventOf(events[i + 1])
        IN  \/ x.created_at < y.created_at
            \/ x.created_at = y.created_at /\ x.id >= y.id
\* C30: allEventsSorted and every bucket of every index is sorted ascending by the
\* event ordering, whatever the order of created_at the events arrive in.
C30_BucketsSorted ==
    \A b \in Buckets(repo) : SortedAscending(b)
\* R2 and R1 tie on created_at and E5, older than both, was stored after them: it
\* was moved to the front, and the larger id precedes the smaller
C30_Witness ==
    /\ handled.op = "ingest" /\ handled.id = 5 /\ handled.insertion = "ok"
    /\ repo.allEventsSorted = <<5, 2, 1>>
    /\ repo.indices.author["P"] = <<5, 2, 1>>

\* C31: every id recorded in deletedEvents is the id of a stored event that is
\* flagged deleted, is no kind-5 event, and is named by an e tag of a stored kind-5
\* event of its own author; so no recorded id belongs to a stored event that is
\* not flagged deleted, and an e tag that names an unknown id, an event of another
\* author or a kind-5 event records nothing.
C31_DeletedIdsAreDeleted ==
    \A id \in repo.deletedEvents :
        /\ id \in Stored(repo)
        /\ repo.eventsById[id].deleted
        /\ EventOf(id).kind # 5
        /\ \E d \in Stored(repo) :
               /\ EventOf(d).kind = 5
               /\ EventOf(d).pubkey = EventOf(id).pubkey
               /\ SeqHas(getTagValuesByName(EventOf(d), "e"), id)
\* E5 was deleted by D7 of its author; the e tags of D7 and D8 that name the
\* kind-5 event D7, and those of D9 (another author) that name E5 and the unknown
\* id 0, recorded nothing
C31_Witness ==
    /\ {5, 7, 8, 9} \subseteq Stored(repo)
    /\ repo.deletedEvents = {5}
    /\ SeqHas(getTagValuesByName(D9, "e"), 0) /\ SeqHas(getTagValuesByName(D9, "e"), 5)
    /\ D9.pubkey # E5.pubkey

\* the queries made after a step: the bucket of all events and one bucket of the
\* author index and of the eTag index
LaterFilters ==
    { FAll,
      Filter(U, << <<"P">> >>, U, U, U, U, U, U),
      Filter(U, U, U, << <<5>> >>, U, U, U, U) }
\* C32: no step removes an id from eventsById or from deletedEvents, and none
\* clears a deleted flag; an event that is flagged deleted (by a kind-5 event or
\* because it was overwritten) before a step that changes the repository is
\* yielded by no query after it.
C32_NeverRemoved ==
    [][/\ Stored(repo) \subseteq Stored(repo')
       /\ repo.deletedEvents \subseteq repo'.deletedEvents
       /\ \A id \in Stored(repo) : repo.eventsById[id].deleted => repo'.eventsById[id].deleted
       /\ (repo' # repo /\ \E id \in Stored(repo) : repo.eventsById[id].deleted) =>
              \A f \in LaterFilters :
                  LET out == Yielded(repo', f)
                  IN  \A i \in 1..Len(out) : ~IsDeleted(repo, out[i])]_vars
\* R2 was overwritten by R1 and E5 deleted by D7; E6 was stored after that, and
\* both are still stored and flagged
C32_Witness ==
    /\ handled.op = "ingest" /\ handled.id = 6 /\ handled.insertion = "ok"
    /\ {2, 5} \subseteq Stored(repo)
    /\ repo.eventsById[2].deleted /\ repo.eventsById[5].deleted
    /\ 5 \in repo.deletedEvents

\* C33: every entry of the replaceable tracker refers to an event that is stored
\* and not flagged deleted.
C33_TrackedIsRetained ==
    \A addr \in DOMAIN repo.reTracker :
        /\ repo.reTracker[addr] \in Stored(repo)
        /\ ~repo.eventsById[repo.reTracker[addr]].deleted

\* C34: an event that ingest has just broadcast is ephemeral, or it is stored and
\* not flagged deleted (the repository is not changed between the end of insert
\* and the broadcast, so it is then as it is at the end of the step); a replaceable
\* event that loses against the tracked event of its address is not broadcast.
C34_BroadcastIsRetained ==
    (handled.op \in {"EVENT", "ingest"} /\ handled.broadcast) =>
        \/ isEphemeralEvent(EventOf(handled.id))
        \/ /\ handled.id \in Stored(repo)
           /\ ~repo.eventsById[handled.id].deleted

\* C35: for every filter f, no event id occurs twice in what query([f]) yields.
C35_NoIdTwice ==
    \A f \in Filters :
        LET out == Yielded(repo, f)
        IN  \A i, j \in 1..Len(out) : out[i] = out[j] => i = j

\* the subIds under which the pool has a subscription of the peer
PoolSubIds(ss, p) ==
    {ss[i].subId : i \in {j \in 1..Len(ss) : ss[j].peerId = p}}
\* C36: after every handler, for every connection, the subIds the pool has for its
\* peer are the subIds of its set of active subscriptions.
C36_PoolIsActive ==
    \A p \in conns : PoolSubIds(subs, p) = activeSubs[p]
\* one peer has both subIds registered; the other had both and has just closed s1
C36_Witness ==
    /\ handled.op = "CLOSE" /\ handled.subId = "s1" /\ handled.ok
    /\ activeSubs[handled.peer] = {"s2"}
    /\ PoolSubIds(subs, handled.peer) = {"s2"}
    /\ \E q \in conns \ {handled.peer} : activeSubs[q] = {"s1", "s2"}
\* a REQ without effective filter under a subId that is active left pool and
\* active set as they were
C36_Ineffective ==
    /\ handled.op = "REQ" /\ handled.filters = <<FNever>>
    /\ handled.subId \in activeSubs[handled.peer]
    /\ handled.subId \in PoolSubIds(subs, handled.peer)

\* the number of entries of a list of buckets
RECURSIVE SizeOf(_)
SizeOf(bs) ==
    IF bs = <<>> THEN 0 ELSE Len(bs[1].events) + SizeOf(Tail(bs))
\* the bucket lists #selectIndex chooses from: allEventsSorted alone, and for each
\* of authors, kinds, #e and #p that the filter sets, the buckets of its keys
Choices(R, f) ==
    {<<AllBucket(R)>>}
        \cup {c.buckets : c \in
                {getCandidateBuckets(R.indices.author, "author", f.authors)[i] :
                     i \in 1..Len(f.authors)}
                \cup {getCandidateBuckets(R.indices.kind, "kind", f.kinds)[i] :
                          i \in 1..Len(f.kinds)}
                \cup {getCandidateBuckets(R.indices.eTag, "eTag", f.tagE)[i] :
                          i \in 1..Len(f.tagE)}
                \cup {getCandidateBuckets(R.indices.pTag, "pTag", f.tagP)[i] :
                          i \in 1..Len(f.tagP)}}
\* C37: for a filter without ids, #selectIndex returns one of allEventsSorted and
\* the candidate bucket lists of the fields the filter sets, none of them has a
\* smaller total size, and none of equal total size has fewer buckets; with ids,
\* or with none of authors, kinds, #e and #p, it returns allEventsSorted alone.
C37_SmallestIndex ==
    \A f \in Filters :
        LET r == selectIndex(repo, f)
        IN  IF \/ f.ids # <<>>
               \/ f.authors = <<>> /\ f.kinds = <<>> /\ f.tagE = <<>> /\ f.tagP = <<>>
            THEN r = <<AllBucket(repo)>>
            ELSE /\ r \in Choices(repo, f)
                 /\ \A c \in Choices(repo, f) :
                        \/ SizeOf(r) < SizeOf(c)
                        \/ SizeOf(r) = SizeOf(c) /\ Len(r) <= Len(c)
\* for one filter an index is selected that holds events, is smaller than
\* allEventsSorted and smaller than the candidate of another field; for another
\* filter two choices hold the same number of events and the one with fewer
\* buckets is returned
C37_Witness ==
    /\ \E f \in Filters :
           LET r == selectIndex(repo, f)
           IN  /\ f.ids = <<>>
               /\ 0 < SizeOf(r) /\ SizeOf(r) < Len(repo.allEventsSorted)
               /\ \E c \in Choices(repo, f) \ {<<AllBucket(repo)>>} : SizeOf(c) > SizeOf(r)
    /\ \E f \in Filters :
           LET r == selectIndex(repo, f)
           IN  /\ f.ids = <<>>
               /\ 0 < SizeOf(r)
               /\ \E c \in Choices(repo, f) : SizeOf(c) = SizeOf(r) /\ Len(c) > Len(r)
====
